---- MODULE Spec2Model ----
(***************************************************************************)
(* State-machine model of the jsonui-test-runner validation engine:        *)
(*   jsonui_test_cli/validation/  (the modular validator package)          *)
(*   jsonui_test_cli/validator.py (the single-file validator that cli.py   *)
(*                                 and generator.py import)                *)
(*   jsonui_test_cli/generator.py (DocumentGenerator.generate,             *)
(*                                 generate_html_directory)                *)
(*                                                                         *)
(* JSON values are tagged tuples:                                          *)
(*   <<"dict", <<k1, v1>>, ...>>  is written  <<"dict", pairs>> with pairs *)
(*   a sequence of <<key, value>> (Python dicts keep insertion order),     *)
(*   <<"list", items>>, <<"str", s>>, <<"int", n>>, <<"float", repr>>,     *)
(*   <<"bool", b>>, <<"null">>.                                            *)
(* Paths are strings with "/" separators.                                  *)
(***************************************************************************)
EXTENDS Integers, Sequences, FiniteSets, TLC

\* ------------------------------------------------------------------------
\* JSON values and the Python operations the validators apply to them
\* ------------------------------------------------------------------------
JStr(s) == <<"str", s>>
JInt(n) == <<"int", n>>
JFloat(r) == <<"float", r>>
JBool(b) == <<"bool", b>>
JNull == <<"null">>
JList(items) == <<"list", items>>
JDict(pairs) == <<"dict", pairs>>

Kind(v) == v[1]
IsDict(v) == Kind(v) = "dict"
IsList(v) == Kind(v) = "list"
IsStr(v) == Kind(v) = "str"
\* isinstance(v, int): bool is a subclass of int in Python
IsInstanceInt(v) == Kind(v) \in {"int", "bool"}
\* a test of the argument values that lets null pass
IsPrimitiveOrNull(v) == Kind(v) \in {"str", "int", "float", "bool", "null"}

\* isinstance(v, (str, int, float, bool))
IsPrimitive(v) == Kind(v) \in {"str", "int", "float", "bool"}

\* Characters of a string
CharAt(s, i) == SubSeq(s, i, i)

\* sub in s, for Python strings
StrContains(s, sub) ==
    \E i \in 1..(Len(s) - Len(sub) + 1) : SubSeq(s, i, i + Len(sub) - 1) = sub

\* s.endswith(suf)
EndsWith(s, suf) ==
    /\ Len(s) >= Len(suf)
    /\ SubSeq(s, Len(s) - Len(suf) + 1, Len(s)) = suf

Whitespace == {" ", "\t", "\n", "\r"}

\* bool(s.strip()) for a Python string
StripNonEmpty(s) == \E i \in 1..Len(s) : CharAt(s, i) \notin Whitespace

\* dict operations
Pairs(d) == d[2]
Keys(d) == [i \in 1..Len(Pairs(d)) |-> Pairs(d)[i][1]]
KeySet(d) == {Pairs(d)[i][1] : i \in 1..Len(Pairs(d))}
HasKey(d, k) == k \in KeySet(d)
Get(d, k) == Pairs(d)[CHOOSE i \in 1..Len(Pairs(d)) : Pairs(d)[i][1] = k][2]
\* d.get(k, default)
GetOr(d, k, default) == IF HasKey(d, k) THEN Get(d, k) ELSE default

Items(l) == l[2]

\* `k in v` for a string k: "yes", "no", or "raise" (TypeError: not iterable)
PyIn(k, v) ==
    CASE IsDict(v) -> IF HasKey(v, k) THEN "yes" ELSE "no"
      [] IsList(v) -> IF \E i \in 1..Len(Items(v)) : Items(v)[i] = JStr(k)
                      THEN "yes" ELSE "no"
      [] IsStr(v) -> IF StrContains(v[2], k) THEN "yes" ELSE "no"
      [] OTHER -> "raise"

\* bool(v)
Truthy(v) ==
    CASE Kind(v) = "str" -> v[2] # ""
      [] Kind(v) = "int" -> v[2] # 0
      [] Kind(v) = "float" -> v[2] \notin {"0.0", "-0.0"}
      [] Kind(v) = "bool" -> v[2]
      [] Kind(v) = "null" -> FALSE
      [] Kind(v) = "list" -> Len(v[2]) > 0
      [] Kind(v) = "dict" -> Len(v[2]) > 0

\* hash(v) succeeds (needed by `v in some_dict`)
Hashable(v) == Kind(v) \notin {"list", "dict"}

\* len(v) for a sized value
PyLen(v) == Len(v[2])

\* type(v).__name__
TypeName(v) ==
    CASE Kind(v) = "str" -> "str"
      [] Kind(v) = "int" -> "int"
      [] Kind(v) = "float" -> "float"
      [] Kind(v) = "bool" -> "bool"
      [] Kind(v) = "null" -> "NoneType"
      [] Kind(v) = "list" -> "list"
      [] Kind(v) = "dict" -> "dict"

RECURSIVE ReprChars(_, _, _)
\* the characters of repr(s) between the quotes: backslash, the quote in use
\* and the control characters are escaped
ReprChars(s, quote, i) ==
    IF i > Len(s) THEN ""
    ELSE LET c == SubSeq(s, i, i)
         IN (CASE c = "\\" -> "\\\\"
               [] c = quote -> "\\" \o quote
               [] c = "\n" -> "\\n"
               [] c = "\t" -> "\\t"
               [] c = "\r" -> "\\r"
               [] OTHER -> c)
            \o ReprChars(s, quote, i + 1)

\* repr(s) of a string: in double quotes when it has a single quote and no
\* double quote
ReprStr(s) ==
    LET quote == IF StrContains(s, "'") /\ ~StrContains(s, "\"") THEN "\"" ELSE "'"
    IN quote \o ReprChars(s, quote, 1) \o quote

RECURSIVE PyRepr(_)
RECURSIVE ReprItems(_, _)
RECURSIVE ReprPairs(_, _)
\* repr(v), as an f-string shows a value nested in a container
PyRepr(v) ==
    CASE Kind(v) = "str" -> ReprStr(v[2])
      [] Kind(v) = "int" -> ToString(v[2])
      [] Kind(v) = "float" -> v[2]
      [] Kind(v) = "bool" -> IF v[2] THEN "True" ELSE "False"
      [] Kind(v) = "null" -> "None"
      [] Kind(v) = "list" -> "[" \o ReprItems(v[2], 1) \o "]"
      [] Kind(v) = "dict" -> "{" \o ReprPairs(v[2], 1) \o "}"
ReprItems(items, i) ==
    IF i > Len(items) THEN ""
    ELSE PyRepr(items[i]) \o (IF i < Len(items) THEN ", " ELSE "")
         \o ReprItems(items, i + 1)
ReprPairs(pairs, i) ==
    IF i > Len(pairs) THEN ""
    ELSE PyRepr(<<"str", pairs[i][1]>>) \o ": " \o PyRepr(pairs[i][2])
         \o (IF i < Len(pairs) THEN ", " ELSE "") \o ReprPairs(pairs, i + 1)

\* str(v), as an f-string shows a value
PyStr(v) == IF Kind(v) = "str" THEN v[2] ELSE PyRepr(v)

\* ------------------------------------------------------------------------
\* State
\* ------------------------------------------------------------------------
VARIABLES
    fs,              \* the files on disk: path -> [kind, data]
    test_file_path,  \* TestValidator._test_file_path of each validator object
    pc,              \* position of the call in progress
    self,            \* the validator object the call in progress runs on
    call,            \* the call in progress: [op, file_path]
    data,            \* the local `data` of validate_file / validate_data
    result,          \* the ValidationResult of the call in progress
    branch,          \* the branch validate_file's if/elif chain took
    idx,             \* loop index of the validator in progress
    ran,             \* the validators entered during the call in progress
    gen,             \* the generator operation in progress
    written,         \* output files written by the generators
    generated_files, \* generate_html_directory's list of index entries
    ncalls,          \* number of validator calls started so far
    other            \* the validate_file call of a second thread

vars == <<fs, test_file_path, pc, self, call, data, result, branch, idx, ran,
          gen, written, generated_files, ncalls, other>>

\* The two TestValidator classes of the repository
Impls == {"modular", "legacy"}

\* The validator objects: one of each class made by the client, and the one
\* DocumentGenerator.__init__ makes, and the one cmd_validate makes
\* (generator.py and cli.py import validator.py)
Validators == Impls \cup {"generator", "cli"}

\* the class of a validator object
ImplOf(v) == IF v = "modular" THEN "modular" ELSE "legacy"

\* Path | None: None is the empty string (a resolved path is never empty)
NoPath == ""

\* ------------------------------------------------------------------------
\* schema.py
\* ------------------------------------------------------------------------
SUPPORTED_ACTIONS ==
    [tap |-> [required |-> <<"id">>],
     doubleTap |-> [required |-> <<"id">>],
     longPress |-> [required |-> <<"id">>],
     input |-> [required |-> <<"id", "value">>],
     clear |-> [required |-> <<"id">>],
     scroll |-> [required |-> <<"id", "direction">>],
     swipe |-> [required |-> <<"id", "direction">>],
     waitFor |-> [required |-> <<"id">>],
     waitForAny |-> [required |-> <<"ids">>],
     wait |-> [required |-> <<"ms">>],
     back |-> [required |-> <<>>],
     screenshot |-> [required |-> <<"name">>],
     alertTap |-> [required |-> <<"button">>],
     selectOption |-> [required |-> <<"id">>]]

SUPPORTED_ASSERTIONS ==
    [visible |-> [required |-> <<"id">>],
     notVisible |-> [required |-> <<"id">>],
     enabled |-> [required |-> <<"id">>],
     disabled |-> [required |-> <<"id">>],
     text |-> [required |-> <<"id">>],
     count |-> [required |-> <<"id", "equals">>]]

VALID_DIRECTIONS == <<"up", "down", "left", "right">>

VALID_TOP_LEVEL_KEYS ==
    {"type", "source", "metadata", "platform", "initialState",
     "setup", "teardown", "cases", "sources", "steps", "checkpoints"}

VALID_CASE_KEYS == {"name", "description", "skip", "platform", "initialState", "steps"}

VALID_STEP_KEYS ==
    {"action", "assert", "id", "ids", "value", "direction",
     "duration", "timeout", "ms", "name", "equals", "contains",
     "path", "amount", "screen", "text", "button", "label", "index"}

\* validation/screen.py imports VALID_SOURCE_KEYS and description.py imports
\* VALID_DESCRIPTION_KEYS; schema.py as given defines neither. The source keys
\* are the ones tests/test_validator.py accepts without a warning, the
\* description keys are the fields of the description file.
VALID_SOURCE_KEYS == {"layout", "document"}

VALID_DESCRIPTION_KEYS ==
    {"case_name", "summary", "preconditions", "test_procedure",
     "expected_results", "notes"}

\* ------------------------------------------------------------------------
\* ValidationMessage, ValidationResult
\* ------------------------------------------------------------------------
ValidationMessage(path, message, level) ==
    [path |-> path, message |-> message, level |-> level]

\* ValidationResult(file_path=...): fresh, empty lists, test_data None
ValidationResult(file_path) ==
    [file_path |-> file_path, errors |-> <<>>, warnings |-> <<>>, test_data |-> JNull]

\* result.errors.append(...), unless an exception already left the call
Err(r, path, message) ==
    IF r.raised THEN r
    ELSE [r EXCEPT !.errors = Append(@, ValidationMessage(path, message, "error"))]

\* result.warnings.append(...)
Warn(r, path, message) ==
    IF r.raised THEN r
    ELSE [r EXCEPT !.warnings = Append(@, ValidationMessage(path, message, "warning"))]

\* if cond: result.errors.append(...)
ErrIf(r, cond, path, message) == IF cond THEN Err(r, path, message) ELSE r

\* if cond: result.warnings.append(...)
WarnIf(r, cond, path, message) == IF cond THEN Warn(r, path, message) ELSE r

\* an exception no handler catches leaves the call
Raise(r) == [r EXCEPT !.raised = TRUE]

\* for key in d.keys(): if key not in valid: warnings.append(prefix + key)
WarnUnknownKeys(r, d, valid, path, prefix) ==
    IF r.raised THEN r
    ELSE LET ks == SelectSeq(Keys(d), LAMBDA k : k \notin valid)
         IN [r EXCEPT !.warnings = @ \o
                [i \in 1..Len(ks) |-> ValidationMessage(path, prefix \o ks[i], "warning")]]

\* ------------------------------------------------------------------------
\* pathlib.Path on "/"-separated strings
\* ------------------------------------------------------------------------
\* index of the last "/" of p, 0 if there is none
LastSlash(p) ==
    LET at == {i \in 1..Len(p) : CharAt(p, i) = "/"}
    IN IF at = {} THEN 0 ELSE CHOOSE i \in at : \A j \in at : j <= i

\* Path(p).name
PathName(p) ==
    IF p \in {".", "/"} THEN "" ELSE SubSeq(p, LastSlash(p) + 1, Len(p))

\* Path(p).parent
PathParent(p) ==
    CASE p \in {".", "/"} -> p
      [] LastSlash(p) = 0 -> "."
      [] LastSlash(p) = 1 -> "/"
      [] OTHER -> SubSeq(p, 1, LastSlash(p) - 1)

\* Path(p).is_absolute()
IsAbsolute(p) == Len(p) > 0 /\ CharAt(p, 1) = "/"

\* Path(base) / ref
PathJoin(base, ref) ==
    CASE IsAbsolute(ref) -> ref
      [] ref = "" -> base
      [] base = "." -> ref
      [] base = "/" -> "/" \o ref
      [] OTHER -> base \o "/" \o ref

\* the working directory of the process
Cwd == "/w"

\* Path(p).resolve(), for paths without symlinks, "." or ".." components
Resolve(p) == IF IsAbsolute(p) THEN p ELSE PathJoin(Cwd, p)

\* the resolved path p is a directory: some file lies below it
IsDir(files, p) ==
    \E f \in DOMAIN files :
        /\ Len(f) > Len(p) + 1
        /\ SubSeq(f, 1, Len(p) + 1) = p \o "/"

\* Path(p).exists()
PathExists(files, p) == Resolve(p) \in DOMAIN files \/ IsDir(files, Resolve(p))

\* ------------------------------------------------------------------------
\* validation/step.py: StepValidator (validator.py: the same methods of
\* TestValidator; only _resolve_file_reference differs)
\* ------------------------------------------------------------------------
\* the first candidate that exists, else `fallback`
FirstExisting(files, candidates, fallback) ==
    LET hits == {i \in 1..Len(candidates) : PathExists(files, candidates[i])}
    IN IF hits = {} THEN fallback
       ELSE candidates[CHOOSE i \in hits : \A j \in hits : i <= j]

\* a resolver that tries the screens and flows candidates before the
\* directory of the flow
resolve_file_reference_screens_first(files, tfp, file_ref) ==
    LET base_dir == PathParent(tfp)
        tests_root ==
            CASE PathName(base_dir) \in {"flows", "screens"} -> PathParent(base_dir)
              [] PathName(PathParent(base_dir)) \in {"flows", "screens"} ->
                    PathParent(PathParent(base_dir))
              [] OTHER -> base_dir
        screens == PathJoin(tests_root, "screens")
        flows == PathJoin(tests_root, "flows")
        candidates ==
            << PathJoin(PathJoin(screens, file_ref), file_ref \o ".test.json"),
               PathJoin(screens, file_ref \o ".test.json"),
               PathJoin(PathJoin(flows, file_ref), file_ref \o ".test.json"),
               PathJoin(flows, file_ref \o ".test.json"),
               PathJoin(base_dir, file_ref \o ".test.json"),
               PathJoin(base_dir, file_ref \o ".json"),
               PathJoin(base_dir, file_ref) >>
    IN FirstExisting(files, candidates,
           PathJoin(PathJoin(screens, file_ref), file_ref \o ".test.json"))

\* StepValidator._resolve_file_reference (tfp is not None here)
resolve_file_reference(files, tfp, file_ref) ==
    LET base_dir == PathParent(tfp)
        tests_root ==
            CASE PathName(base_dir) \in {"flows", "screens"} -> PathParent(base_dir)
              [] PathName(PathParent(base_dir)) \in {"flows", "screens"} ->
                    PathParent(PathParent(base_dir))
              [] OTHER -> base_dir
        screens == PathJoin(tests_root, "screens")
        flows == PathJoin(tests_root, "flows")
        candidates ==
            << PathJoin(base_dir, file_ref \o ".test.json"),
               PathJoin(base_dir, file_ref \o ".json"),
               PathJoin(base_dir, file_ref),
               PathJoin(PathJoin(screens, file_ref), file_ref \o ".test.json"),
               PathJoin(screens, file_ref \o ".test.json"),
               PathJoin(PathJoin(flows, file_ref), file_ref \o ".test.json"),
               PathJoin(flows, file_ref \o ".test.json") >>
    IN FirstExisting(files, candidates,
           PathJoin(PathJoin(screens, file_ref), file_ref \o ".test.json"))

\* validator.py TestValidator._resolve_file_reference
Legacy_resolve_file_reference(files, tfp, file_ref) ==
    LET base_dir == PathParent(tfp)
        candidates ==
            << PathJoin(base_dir, file_ref \o ".test.json"),
               PathJoin(base_dir, file_ref \o ".json"),
               PathJoin(base_dir, file_ref) >>
    IN FirstExisting(files, candidates, candidates[1])

\* int(v) of an int or bool
IntVal(v) == IF Kind(v) = "bool" THEN (IF v[2] THEN 1 ELSE 0) ELSE v[2]

\* not isinstance(v, int) or v <= 0
NotPositiveInt(v) == ~IsInstanceInt(v) \/ IntVal(v) <= 0

\* a check of the required parameters that takes a null value for a missing key
MissingRequired_null_is_missing(r, step, required, path, what, name) ==
    IF r.raised THEN r
    ELSE LET ps == SelectSeq(required, LAMBDA q : GetOr(step, q, JNull) = JNull)
         IN [r EXCEPT !.errors = @ \o
                [i \in 1..Len(ps) |->
                    ValidationMessage(path,
                        "Missing required parameter '" \o ps[i] \o "' for "
                            \o what \o " '" \o name \o "'", "error")]]

\* for param in spec["required"]: if param not in step: errors.append(...)
MissingRequired(r, step, required, path, what, name) ==
    IF r.raised THEN r
    ELSE LET ps == SelectSeq(required, LAMBDA q : ~HasKey(step, q))
         IN [r EXCEPT !.errors = @ \o
                [i \in 1..Len(ps) |->
                    ValidationMessage(path,
                        "Missing required parameter '" \o ps[i] \o "' for "
                            \o what \o " '" \o name \o "'", "error")]]

\* _validate_action with a direction check for string values only
validate_action_string_directions(step, path, r) ==
    LET action == Get(step, "action")
    IN IF ~Hashable(action) THEN Raise(r)
       ELSE IF ~(IsStr(action) /\ action[2] \in DOMAIN SUPPORTED_ACTIONS)
       THEN Err(r, path, "Unsupported action: " \o PyStr(action))
       ELSE
         LET spec == SUPPORTED_ACTIONS[action[2]]
             r1 == MissingRequired(r, step, spec.required, path, "action", action[2])
             r2 == IF HasKey(step, "direction") /\ IsStr(Get(step, "direction"))
                      /\ ~\E i \in 1..Len(VALID_DIRECTIONS) :
                             Get(step, "direction") = JStr(VALID_DIRECTIONS[i])
                   THEN Err(r1, path, "Invalid direction: "
                            \o PyStr(Get(step, "direction"))
                            \o ". Must be one of: ['up', 'down', 'left', 'right']")
                   ELSE r1
             r3 == IF HasKey(step, "timeout") /\ NotPositiveInt(Get(step, "timeout"))
                   THEN Err(r2, path, "Timeout must be a positive integer (ms), got: "
                            \o PyStr(Get(step, "timeout")))
                   ELSE r2
             r4 == IF HasKey(step, "ms") /\ NotPositiveInt(Get(step, "ms"))
                   THEN Err(r3, path, "ms must be a positive integer, got: "
                            \o PyStr(Get(step, "ms")))
                   ELSE r3
             r5 == IF HasKey(step, "ids")
                      /\ (~IsList(Get(step, "ids")) \/ PyLen(Get(step, "ids")) = 0)
                   THEN Err(r4, path, "ids must be a non-empty array")
                   ELSE r4
         IN r5

\* StepValidator._validate_action
validate_action(step, path, r) ==
    LET action == Get(step, "action")
    IN IF ~Hashable(action) THEN Raise(r)
       ELSE IF ~(IsStr(action) /\ action[2] \in DOMAIN SUPPORTED_ACTIONS)
       THEN Err(r, path, "Unsupported action: " \o PyStr(action))
       ELSE
         LET spec == SUPPORTED_ACTIONS[action[2]]
             r1 == MissingRequired(r, step, spec.required, path, "action", action[2])
             r2 == ErrIf(r1, HasKey(step, "direction")
                               /\ ~\E i \in 1..Len(VALID_DIRECTIONS) :
                                      Get(step, "direction") = JStr(VALID_DIRECTIONS[i]),
                         path, "Invalid direction: "
                            \o PyStr(Get(step, "direction"))
                            \o ". Must be one of: ['up', 'down', 'left', 'right']")
             r3 == ErrIf(r2, HasKey(step, "timeout") /\ NotPositiveInt(Get(step, "timeout")),
                         path, "Timeout must be a positive integer (ms), got: "
                            \o PyStr(Get(step, "timeout")))
             r4 == ErrIf(r3, HasKey(step, "ms") /\ NotPositiveInt(Get(step, "ms")),
                         path, "ms must be a positive integer, got: "
                            \o PyStr(Get(step, "ms")))
             r5 == ErrIf(r4, HasKey(step, "ids")
                               /\ (~IsList(Get(step, "ids")) \/ PyLen(Get(step, "ids")) = 0),
                         path, "ids must be a non-empty array")
         IN r5

\* _validate_assertion with a text rule that accepts `equals` only
validate_assertion_equals_only(step, path, r) ==
    LET assertion == Get(step, "assert")
    IN IF ~Hashable(assertion) THEN Raise(r)
       ELSE IF ~(IsStr(assertion) /\ assertion[2] \in DOMAIN SUPPORTED_ASSERTIONS)
       THEN Err(r, path, "Unsupported assertion: " \o PyStr(assertion))
       ELSE
         LET spec == SUPPORTED_ASSERTIONS[assertion[2]]
             r1 == MissingRequired(r, step, spec.required, path, "assertion",
                                   assertion[2])
         IN IF assertion[2] = "text" /\ ~HasKey(step, "equals")
            THEN Err(r1, path, "Text assertion must have 'equals' or 'contains'")
            ELSE r1

\* StepValidator._validate_assertion
validate_assertion(step, path, r) ==
    LET assertion == Get(step, "assert")
    IN IF ~Hashable(assertion) THEN Raise(r)
       ELSE IF ~(IsStr(assertion) /\ assertion[2] \in DOMAIN SUPPORTED_ASSERTIONS)
       THEN Err(r, path, "Unsupported assertion: " \o PyStr(assertion))
       ELSE
         LET spec == SUPPORTED_ASSERTIONS[assertion[2]]
             r1 == MissingRequired(r, step, spec.required, path, "assertion",
                                   assertion[2])
         IN IF assertion[2] = "text" /\ ~HasKey(step, "equals")
                                     /\ ~HasKey(step, "contains")
            THEN Err(r1, path, "Text assertion must have 'equals' or 'contains'")
            ELSE r1

\* the tail of validate_step: a step with neither a `file` nor a `block` key
validate_plain_step(step, path, r) ==
    IF ~IsDict(step) THEN Raise(r)              \* step.keys(): AttributeError
    ELSE
      LET r1 == WarnUnknownKeys(r, step, VALID_STEP_KEYS, path, "Unknown step key: ")
          action == GetOr(step, "action", JNull)
          assertion == GetOr(step, "assert", JNull)
      IN CASE Truthy(action) /\ Truthy(assertion) ->
                 Err(r1, path, "Step cannot have both 'action' and 'assert'")
           [] Truthy(action) /\ ~Truthy(assertion) -> validate_action(step, path, r1)
           [] ~Truthy(action) /\ Truthy(assertion) -> validate_assertion(step, path, r1)
           [] OTHER -> Err(r1, path, "Step must have either 'action' or 'assert'")

\* the check of `cases` without the test for empty items
AllStrings(items) == \A i \in 1..Len(items) : IsStr(items[i])

\* all(isinstance(c, str) and c.strip() for c in cases)
AllNonEmptyStrings(items) ==
    \A i \in 1..Len(items) : IsStr(items[i]) /\ StripNonEmpty(items[i][2])

\* _validate_file_step with an error for a reference that is not found
validate_file_step_strict(ctx, step, path, r) ==
    IF ~IsDict(step) THEN Raise(r)              \* step["file"]: TypeError
    ELSE
      LET file_ref == Get(step, "file")
      IN IF ~IsStr(file_ref) \/ ~StripNonEmpty(file_ref[2])
         THEN Err(r, path, "'file' must be a non-empty string")
         ELSE
           LET r1 == WarnUnknownKeys(r, step, {"file", "case", "cases"}, path,
                                     "Unknown key in file step: ")
               r2 == IF HasKey(step, "case") /\ HasKey(step, "cases")
                     THEN Err(r1, path, "File step cannot have both 'case' and 'cases'")
                     ELSE r1
               r3 == IF HasKey(step, "case")
                        /\ (~IsStr(Get(step, "case"))
                            \/ ~StripNonEmpty(Get(step, "case")[2]))
                     THEN Err(r2, path, "'case' must be a non-empty string")
                     ELSE r2
               r4 == IF ~HasKey(step, "cases") THEN r3
                     ELSE IF ~IsList(Get(step, "cases")) \/ PyLen(Get(step, "cases")) = 0
                     THEN Err(r3, path, "'cases' must be a non-empty array")
                     ELSE IF ~AllNonEmptyStrings(Items(Get(step, "cases")))
                     THEN Err(r3, path, "'cases' must be an array of non-empty strings")
                     ELSE r3
               resolved_path ==
                   IF ctx.impl = "modular"
                   THEN resolve_file_reference(ctx.files, ctx.tfp, file_ref[2])
                   ELSE Legacy_resolve_file_reference(ctx.files, ctx.tfp, file_ref[2])
           IN IF ctx.tfp # NoPath /\ ~PathExists(ctx.files, resolved_path)
              THEN Err(r4, path, "Referenced test file not found: " \o file_ref[2]
                        \o " (looked for " \o resolved_path \o ")")
              ELSE r4

\* StepValidator._validate_file_step; ctx = [files, tfp, impl]
validate_file_step(ctx, step, path, r) ==
    IF ~IsDict(step) THEN Raise(r)              \* step["file"]: TypeError
    ELSE
      LET file_ref == Get(step, "file")
      IN IF ~IsStr(file_ref) \/ ~StripNonEmpty(file_ref[2])
         THEN Err(r, path, "'file' must be a non-empty string")
         ELSE
           LET r1 == WarnUnknownKeys(r, step, {"file", "case", "cases"}, path,
                                     "Unknown key in file step: ")
               r2 == ErrIf(r1, HasKey(step, "case") /\ HasKey(step, "cases"),
                           path, "File step cannot have both 'case' and 'cases'")
               r3 == ErrIf(r2, HasKey(step, "case")
                                 /\ (~IsStr(Get(step, "case"))
                                     \/ ~StripNonEmpty(Get(step, "case")[2])),
                           path, "'case' must be a non-empty string")
               r4 == ErrIf(r3, HasKey(step, "cases")
                                 /\ (\/ ~IsList(Get(step, "cases"))
                                     \/ PyLen(Get(step, "cases")) = 0
                                     \/ ~AllNonEmptyStrings(Items(Get(step, "cases")))),
                           path,
                           IF ~IsList(Get(step, "cases")) \/ PyLen(Get(step, "cases")) = 0
                           THEN "'cases' must be a non-empty array"
                           ELSE "'cases' must be an array of non-empty strings")
               resolved_path ==
                   IF ctx.impl = "modular"
                   THEN resolve_file_reference(ctx.files, ctx.tfp, file_ref[2])
                   ELSE Legacy_resolve_file_reference(ctx.files, ctx.tfp, file_ref[2])
           IN WarnIf(r4, ctx.tfp # NoPath /\ ~PathExists(ctx.files, resolved_path),
                     path, "Referenced test file not found: " \o file_ref[2]
                        \o " (looked for " \o resolved_path \o ")")

\* the descriptionFile check shared by block steps and cases
check_description_file(ctx, owner, path, r) ==
    IF r.raised \/ ~HasKey(owner, "descriptionFile") \/ ctx.tfp = NoPath THEN r
    ELSE LET d == Get(owner, "descriptionFile")
         IN IF ~IsStr(d) THEN Raise(r)          \* Path(desc_file_path): TypeError
            ELSE IF ~PathExists(ctx.files,
                        IF IsAbsolute(d[2]) THEN d[2]
                        ELSE PathJoin(PathParent(ctx.tfp), d[2]))
            THEN Warn(r, path, "Description file not found: " \o d[2])
            ELSE r

RECURSIVE block_inner_steps_nested(_, _, _, _, _)
\* the loop over a block's steps without the two tests: an inner step with a
\* `file` key is validated as a file step, every other one as a plain step
block_inner_steps_nested(ctx, steps, path, r, i) ==
    IF r.raised \/ i > Len(steps) THEN r
    ELSE
      LET inner_step == steps[i]
          inner_step_path == path \o ".steps[" \o ToString(i - 1) \o "]"
          r1 == CASE PyIn("file", inner_step) = "raise" -> Raise(r)
                  [] PyIn("file", inner_step) = "yes" ->
                        validate_file_step(ctx, inner_step, inner_step_path, r)
                  [] OTHER -> validate_plain_step(inner_step, inner_step_path, r)
      IN block_inner_steps_nested(ctx, steps, path, r1, i + 1)

RECURSIVE block_inner_steps(_, _, _, _, _)
\* the loop over a block's steps in _validate_block_step
block_inner_steps(ctx, steps, path, r, i) ==
    IF r.raised \/ i > Len(steps) THEN r
    ELSE
      LET inner_step == steps[i]
          inner_step_path == path \o ".steps[" \o ToString(i - 1) \o "]"
          r1 == CASE PyIn("file", inner_step) = "raise" -> Raise(r)
                  [] PyIn("file", inner_step) = "yes" ->
                        Err(r, inner_step_path,
                            "File references are not allowed inside block steps")
                  [] PyIn("file", inner_step) = "no" /\ PyIn("block", inner_step) = "yes" ->
                        Err(r, inner_step_path,
                            "Nested blocks are not allowed inside block steps")
                  \* validate_step(inner_step, ..., is_flow=False) of a step that
                  \* has neither key
                  [] OTHER -> validate_plain_step(inner_step, inner_step_path, r)
      IN block_inner_steps(ctx, steps, path, r1, i + 1)

\* _validate_block_step that goes on after the error for the block's name
validate_block_step_goes_on(ctx, step, path, r) ==
    IF ~IsDict(step) THEN Raise(r)
    ELSE
      LET block_name == Get(step, "block")
          r0 == IF ~IsStr(block_name) \/ ~StripNonEmpty(block_name[2])
                THEN Err(r, path, "'block' must be a non-empty string")
                ELSE r
          r1 == WarnUnknownKeys(r0, step,
                    {"block", "description", "descriptionFile", "steps"},
                    path, "Unknown key in block step: ")
      IN IF ~HasKey(step, "steps")
         THEN Err(r1, path, "Block step must have 'steps' array")
         ELSE IF ~IsList(Get(step, "steps")) \/ PyLen(Get(step, "steps")) = 0
         THEN Err(r1, path, "Block 'steps' must be a non-empty array")
         ELSE check_description_file(ctx, step, path,
                  block_inner_steps(ctx, Items(Get(step, "steps")), path, r1, 1))

\* StepValidator._validate_block_step
validate_block_step(ctx, step, path, r) ==
    IF ~IsDict(step) THEN Raise(r)              \* step["block"]: TypeError
    ELSE
      LET block_name == Get(step, "block")
      IN IF ~IsStr(block_name) \/ ~StripNonEmpty(block_name[2])
         THEN Err(r, path, "'block' must be a non-empty string")
         ELSE
           LET r1 == WarnUnknownKeys(r, step,
                         {"block", "description", "descriptionFile", "steps"},
                         path, "Unknown key in block step: ")
           IN IF ~HasKey(step, "steps")
              THEN Err(r1, path, "Block step must have 'steps' array")
              ELSE IF ~IsList(Get(step, "steps")) \/ PyLen(Get(step, "steps")) = 0
              THEN Err(r1, path, "Block 'steps' must be a non-empty array")
              ELSE check_description_file(ctx, step, path,
                       block_inner_steps(ctx, Items(Get(step, "steps")), path, r1, 1))

\* validate_step without the is_flow test: file and block steps are validated
\* as such in every test
validate_step_in_any_test(ctx, step, path, r, is_flow) ==
    IF r.raised THEN r
    ELSE
      CASE PyIn("file", step) = "raise" -> Raise(r)
        [] PyIn("file", step) = "yes" -> validate_file_step(ctx, step, path, r)
        [] PyIn("file", step) = "no" /\ PyIn("block", step) = "yes" ->
              validate_block_step(ctx, step, path, r)
        [] OTHER -> validate_plain_step(step, path, r)

\* StepValidator.validate_step
validate_step(ctx, step, path, r, is_flow) ==
    IF r.raised THEN r
    ELSE
      CASE PyIn("file", step) = "raise" -> Raise(r)
        [] PyIn("file", step) = "yes" ->
              IF ~is_flow
              THEN Err(r, path, "File reference steps are only allowed in flow tests")
              ELSE validate_file_step(ctx, step, path, r)
        [] PyIn("file", step) = "no" /\ PyIn("block", step) = "yes" ->
              IF ~is_flow
              THEN Err(r, path, "Block steps are only allowed in flow tests")
              ELSE validate_block_step(ctx, step, path, r)
        [] OTHER -> validate_plain_step(step, path, r)

\* ------------------------------------------------------------------------
\* Iteration, sorting and the placeholder pattern
\* ------------------------------------------------------------------------
\* what `for x in v` / list.extend(v) walks over; <<"raise">> when v is not
\* iterable (TypeError)
PyIter(v) ==
    CASE IsList(v) -> <<"ok", Items(v)>>
      [] IsDict(v) -> <<"ok", [i \in 1..Len(Pairs(v)) |-> JStr(Pairs(v)[i][1])]>>
      [] IsStr(v) -> <<"ok", [i \in 1..Len(v[2]) |-> JStr(CharAt(v[2], i))]>>
      [] OTHER -> <<"raise">>

\* the printable ASCII characters in code-point order (without the backquote)
Ascii ==
    " !\"#$%&'()*+,-./0123456789:;<=>?@ABCDEFGHIJKLMNOPQRSTUVWXYZ[\\]^_abcdefghijklmnopqrstuvwxyz{|}~"

\* the rank of a printable ASCII character in code-point order
Ord(c) == CHOOSE i \in 1..Len(Ascii) : CharAt(Ascii, i) = c

\* a < b for Python strings
StrLess(a, b) ==
    \E i \in 1..(Len(b)) :
        /\ \A j \in 1..(i - 1) : j <= Len(a) /\ CharAt(a, j) = CharAt(b, j)
        /\ \/ i = Len(a) + 1
           \/ i <= Len(a) /\ Ord(CharAt(a, i)) < Ord(CharAt(b, i))

RECURSIVE Sorted(_)
\* sorted(S) for a set of strings
Sorted(S) ==
    IF S = {} THEN <<>>
    ELSE LET m == CHOOSE x \in S : \A y \in S \ {x} : StrLess(x, y)
         IN <<m>> \o Sorted(S \ {m})

\* index of the first "}" of s at or after i, 0 if there is none
NextClose(s, i) ==
    LET at == {j \in i..Len(s) : CharAt(s, j) = "}"}
    IN IF at = {} THEN 0 ELSE CHOOSE j \in at : \A k \in at : j <= k

RECURSIVE FindAll(_, _)
\* ARG_PLACEHOLDER_PATTERN.findall(s), scanning from index i:
\* re.compile(r'@\{([^}]+)\}'), leftmost non-overlapping matches
FindAll(s, i) ==
    IF i + 3 > Len(s) THEN {}
    ELSE IF SubSeq(s, i, i + 1) = "@{" /\ NextClose(s, i + 2) > i + 2
    THEN {SubSeq(s, i + 2, NextClose(s, i + 2) - 1)}
            \cup FindAll(s, NextClose(s, i + 2) + 1)
    ELSE FindAll(s, i + 1)

RECURSIVE extract_args_from_value(_)
\* ScreenTestValidator._extract_args_from_value: the names it adds to used_args
extract_args_from_value(obj) ==
    CASE IsStr(obj) -> FindAll(obj[2], 1)
      [] IsDict(obj) ->
            UNION {extract_args_from_value(Pairs(obj)[i][2]) : i \in 1..Len(Pairs(obj))}
      [] IsList(obj) ->
            UNION {extract_args_from_value(Items(obj)[i]) : i \in 1..Len(Items(obj))}
      [] OTHER -> {}

\* an extraction that looks at the first step only
extract_used_args_first_step(steps) ==
    IF Len(steps) = 0 THEN {} ELSE extract_args_from_value(steps[1])

\* ScreenTestValidator._extract_used_args
extract_used_args(steps) ==
    UNION {extract_args_from_value(steps[i]) : i \in 1..Len(steps)}

\* ------------------------------------------------------------------------
\* validation/screen.py: ScreenTestValidator
\* ------------------------------------------------------------------------
RECURSIVE validate_steps(_, _, _, _, _, _)
\* for i, step in enumerate(steps): validate_step(step, f"{prefix}[{i}]", ...)
validate_steps(ctx, steps, prefix, r, is_flow, i) ==
    IF r.raised \/ i > Len(steps) THEN r
    ELSE validate_steps(ctx, steps, prefix,
             validate_step(ctx, steps[i], prefix \o "[" \o ToString(i - 1) \o "]",
                           r, is_flow),
             is_flow, i + 1)

\* ScreenTestValidator.validate, up to the loop over the cases
screen_validate_head(d, path, r) ==
    LET r1 == WarnUnknownKeys(r, d, VALID_TOP_LEVEL_KEYS, path, "Unknown top-level key: ")
        source == GetOr(d, "source", JNull)
        r2 == IF Truthy(source) /\ IsDict(source)
              THEN WarnUnknownKeys(r1, source, VALID_SOURCE_KEYS, path \o ".source",
                                   "Unknown source key: ")
              ELSE r1
        r3 == IF ~HasKey(d, "metadata") THEN Warn(r2, path, "Missing 'metadata' field")
              ELSE r2
        cases == GetOr(d, "cases", JList(<<>>))
        r4 == IF ~Truthy(cases) THEN Warn(r3, path, "No test cases defined") ELSE r3
    IN IF PyIter(cases)[1] = "raise" THEN Raise(r4) ELSE r4

\* the `args` block of ScreenTestValidator._validate_case
validate_case_args(case, path, r) ==
    IF r.raised \/ ~HasKey(case, "args") THEN r
    ELSE LET args == Get(case, "args")
         IN IF ~IsDict(args)
            THEN Err(r, path \o ".args", "'args' must be an object/dictionary")
            ELSE LET bad == SelectSeq(Pairs(args), LAMBDA kv : ~IsPrimitive(kv[2]))
                 IN [r EXCEPT !.errors = @ \o
                        [i \in 1..Len(bad) |->
                            ValidationMessage(path \o ".args." \o bad[i][1],
                                "Argument value must be a primitive type (string, number, boolean), got: "
                                    \o TypeName(bad[i][2]), "error")]]

\* the placeholder block of ScreenTestValidator._validate_case
validate_case_placeholders(case, steps, path, r) ==
    IF r.raised THEN r
    ELSE LET defined_args ==
                 IF IsDict(GetOr(case, "args", JNull))
                 THEN KeySet(Get(case, "args")) ELSE {}
             undefined_args == Sorted(extract_used_args(steps) \ defined_args)
         IN [r EXCEPT !.errors = @ \o
                [i \in 1..Len(undefined_args) |->
                    ValidationMessage(path,
                        "Undefined argument '@{" \o undefined_args[i]
                            \o "}' used in steps but not defined in 'args'", "error")]]

\* the part of _validate_case that both validators share: name, description,
\* unknown keys, descriptionFile
validate_case_head(ctx, case, path, r) ==
    IF r.raised THEN r
    ELSE IF PyIn("name", case) = "raise" THEN Raise(r)
    ELSE
      LET r1 == IF PyIn("name", case) = "no"
                THEN Err(r, path, "Test case missing 'name' field") ELSE r
      IN IF ~IsDict(case) THEN Raise(r1)        \* case.get / case.keys()
         ELSE
           LET r2 == IF ~HasKey(case, "description")
                     THEN Warn(r1, path, "Test case '"
                              \o PyStr(GetOr(case, "name", JStr("unknown")))
                              \o "' missing 'description' field (recommended for HTML documentation)")
                     ELSE r1
               r3 == WarnUnknownKeys(r2, case, VALID_CASE_KEYS, path, "Unknown case key: ")
           IN check_description_file(ctx, case, path, r3)

\* the `steps` block of _validate_case: warning when empty, then every step
validate_case_steps(ctx, case, path, r) ==
    IF r.raised THEN r
    ELSE LET steps == GetOr(case, "steps", JList(<<>>))
             r1 == IF ~Truthy(steps) THEN Warn(r, path, "Test case has no steps") ELSE r
         IN IF PyIter(steps)[1] = "raise" THEN Raise(r1)
            ELSE validate_steps(ctx, PyIter(steps)[2], path \o ".steps", r1, FALSE, 1)

\* ScreenTestValidator._validate_case
validate_case(ctx, case, path, r) ==
    LET r1 == validate_case_head(ctx, case, path, r)
        r2 == IF r1.raised THEN r1 ELSE validate_case_args(case, path, r1)
        r3 == validate_case_steps(ctx, case, path, r2)
    IN IF r3.raised THEN r3
       ELSE validate_case_placeholders(case,
                PyIter(GetOr(case, "steps", JList(<<>>)))[2], path, r3)

\* validator.py TestValidator._validate_case
Legacy_validate_case(ctx, case, path, r) ==
    validate_case_steps(ctx, case, path, validate_case_head(ctx, case, path, r))

RECURSIVE validate_sections_flow_aware(_, _, _, _, _)
\* a setup/teardown loop that validates the steps as the steps of a flow
validate_sections_flow_aware(ctx, d, path, r, sections) ==
    IF r.raised \/ sections = <<>> THEN r
    ELSE LET section == Head(sections)
             r1 == IF ~HasKey(d, section) THEN r
                   ELSE IF PyIter(Get(d, section))[1] = "raise" THEN Raise(r)
                   ELSE validate_steps(ctx, PyIter(Get(d, section))[2],
                                       path \o "." \o section, r, TRUE, 1)
         IN validate_sections_flow_aware(ctx, d, path, r1, Tail(sections))

RECURSIVE validate_sections(_, _, _, _, _)
\* the setup/teardown loop of ScreenTestValidator.validate
validate_sections(ctx, d, path, r, sections) ==
    IF r.raised \/ sections = <<>> THEN r
    ELSE LET section == Head(sections)
             r1 == IF ~HasKey(d, section) THEN r
                   ELSE IF PyIter(Get(d, section))[1] = "raise" THEN Raise(r)
                   ELSE validate_steps(ctx, PyIter(Get(d, section))[2],
                                       path \o "." \o section, r, FALSE, 1)
         IN validate_sections(ctx, d, path, r1, Tail(sections))

\* validator.py TestValidator._validate_screen_test, up to the loop over the cases
Legacy_screen_validate_head(d, path, r) ==
    LET r1 == WarnUnknownKeys(r, d, VALID_TOP_LEVEL_KEYS, path, "Unknown top-level key: ")
        r3 == IF ~HasKey(d, "metadata") THEN Warn(r1, path, "Missing 'metadata' field")
              ELSE r1
        cases == GetOr(d, "cases", JList(<<>>))
        r4 == IF ~Truthy(cases) THEN Warn(r3, path, "No test cases defined") ELSE r3
    IN IF PyIter(cases)[1] = "raise" THEN Raise(r4) ELSE r4

\* ------------------------------------------------------------------------
\* validation/flow.py: FlowTestValidator
\* ------------------------------------------------------------------------
RECURSIVE check_each_reference(_, _, _, _)
\* the loop of _check_subdirectory_references over all_steps
check_each_reference(all_steps, path, r, i) ==
    IF r.raised \/ i > Len(all_steps) THEN r
    ELSE
      LET step == all_steps[i]
          r1 == CASE PyIn("file", step) = "raise" -> Raise(r)
                  [] PyIn("file", step) = "no" -> r
                  [] OTHER ->
                     IF ~IsDict(step) THEN Raise(r)       \* step["file"]
                     ELSE LET file_ref == Get(step, "file")
                          IN CASE PyIn("/", file_ref) = "raise" -> Raise(r)
                               [] PyIn("/", file_ref) = "yes"
                                    \/ PyIn("\\", file_ref) = "yes" ->
                                  Warn(r, path \o ".steps",
                                       "File reference '" \o PyStr(file_ref)
                                       \o "' contains path separator. Use just the filename (e.g., 'login' instead of 'screens/login'). The loader automatically looks in screens/ subdirectory.")
                               [] OTHER -> r
      IN check_each_reference(all_steps, path, r1, i + 1)

\* a pre-scan that looks at `steps` only
check_subdirectory_references_steps_only(d, path, r) ==
    LET steps == PyIter(GetOr(d, "steps", JList(<<>>)))
    IN IF steps[1] = "raise" THEN Raise(r)
       ELSE check_each_reference(steps[2], path, r, 1)

\* FlowTestValidator._check_subdirectory_references
check_subdirectory_references(d, path, r) ==
    LET setup == PyIter(GetOr(d, "setup", JList(<<>>)))
        steps == PyIter(GetOr(d, "steps", JList(<<>>)))
        teardown == PyIter(GetOr(d, "teardown", JList(<<>>)))
    IN IF setup[1] = "raise" \/ steps[1] = "raise" \/ teardown[1] = "raise"
       THEN Raise(r)                            \* list.extend: TypeError
       ELSE check_each_reference(setup[2] \o steps[2] \o teardown[2], path, r, 1)

\* FlowTestValidator.validate after the pre-scan
\* (validator.py: TestValidator._validate_flow_test)
flow_validate_steps(ctx, d, path, r) ==
    IF r.raised THEN r
    ELSE LET steps == GetOr(d, "steps", JList(<<>>))
             r1 == IF ~Truthy(steps) THEN Warn(r, path, "No steps defined in flow test")
                   ELSE r
         IN IF PyIter(steps)[1] = "raise" THEN Raise(r1)
            ELSE validate_steps(ctx, PyIter(steps)[2], path \o ".steps", r1, TRUE, 1)

\* ------------------------------------------------------------------------
\* validation/description.py: DescriptionValidator
\* (validator.py: TestValidator._validate_description)
\* ------------------------------------------------------------------------
\* if key in data and not isinstance(data[key], str): error
check_string_field(r, d, key, path) ==
    IF ~r.raised /\ HasKey(d, key) /\ ~IsStr(Get(d, key))
    THEN Err(r, path, "'" \o key \o "' must be a string")
    ELSE r

\* if key in data: error unless a list, whatever its items
check_list_field(r, d, key, path) ==
    IF r.raised \/ ~HasKey(d, key) THEN r
    ELSE IF ~IsList(Get(d, key))
    THEN Err(r, path, "'" \o key \o "' must be an array")
    ELSE r

\* if key in data: error unless a list whose items are all strings
check_string_list_field(r, d, key, path) ==
    IF r.raised \/ ~HasKey(d, key) THEN r
    ELSE IF ~IsList(Get(d, key))
    THEN Err(r, path, "'" \o key \o "' must be an array")
    ELSE IF \E i \in 1..PyLen(Get(d, key)) : ~IsStr(Items(Get(d, key))[i])
    THEN Err(r, path, "'" \o key \o "' must be an array of strings")
    ELSE r

\* DescriptionValidator.validate
description_validate(d, path, r) ==
    IF PyIn("case_name", d) = "raise" THEN Raise(r)
    ELSE
      LET r1 == IF PyIn("case_name", d) = "no"
                THEN Err(r, path, "Description file missing required 'case_name' field")
                ELSE r
      IN IF ~IsDict(d) THEN Raise(r1)           \* data.keys(): AttributeError
         ELSE
           LET r2 == WarnUnknownKeys(r1, d, VALID_DESCRIPTION_KEYS, path,
                                     "Unknown description key: ")
               r3 == IF HasKey(d, "case_name")
                        /\ (~IsStr(Get(d, "case_name"))
                            \/ ~StripNonEmpty(Get(d, "case_name")[2]))
                     THEN Err(r2, path, "'case_name' must be a non-empty string")
                     ELSE r2
               r4 == check_string_field(r3, d, "summary", path)
               r5 == check_string_list_field(r4, d, "preconditions", path)
               r6 == check_string_list_field(r5, d, "test_procedure", path)
               r7 == check_string_list_field(r6, d, "expected_results", path)
           IN check_string_field(r7, d, "notes", path)

\* ------------------------------------------------------------------------
\* validation/models.py: ValidationResult properties
\* ------------------------------------------------------------------------
\* a ValidationResult that is valid only without warnings as well
is_valid_without_messages(res) == Len(res.errors) = 0 /\ Len(res.warnings) = 0

\* ValidationResult.is_valid
is_valid(res) == Len(res.errors) = 0

\* ValidationResult.error_count
error_count(res) == Len(res.errors)

\* ValidationResult.warning_count
warning_count(res) == Len(res.warnings)

\* ------------------------------------------------------------------------
\* Files on disk
\* ------------------------------------------------------------------------
JsonFile(d) == [kind |-> "json", data |-> d]
BadJsonFile == [kind |-> "badjson", data |-> JNull]
UnreadableFile == [kind |-> "unreadable", data |-> JNull]

\* with open(file_path) as f: data = json.load(f)
\*   <<"ok", data>>, <<"JSONDecodeError">> or <<"Exception">> (a missing or
\*   unreadable file)
load_json(files, file_path) ==
    LET f == Resolve(file_path)
    IN IF f \notin DOMAIN files \/ files[f].kind = "unreadable" THEN <<"Exception">>
       ELSE IF files[f].kind = "badjson" THEN <<"JSONDecodeError">>
       ELSE <<"ok", files[f].data>>

\* ------------------------------------------------------------------------
\* validation/validator.py: TestValidator (validator.py: TestValidator)
\* ------------------------------------------------------------------------
\* the if/elif chain of validate_file: the branch taken, or "raise"
classify(file_path, d) ==
    IF EndsWith(PathName(file_path), ".test.json") THEN "test"
    ELSE IF PyIn("case_name", d) = "raise" THEN "raise"
    ELSE IF PyIn("case_name", d) = "yes"
            \/ PathName(PathParent(file_path)) = "descriptions"
    THEN "description"
    ELSE IF PyIn("type", d) = "no" THEN "unknown"
    ELSE IF ~IsDict(d) THEN "raise"             \* data['type']: TypeError
    ELSE IF Get(d, "type") \in {JStr("screen"), JStr("flow")} THEN "test_by_type"
    ELSE "unknown"

\* the accumulator the validators work on, from the call's ValidationResult
Acc(res) == [errors |-> res.errors, warnings |-> res.warnings, raised |-> FALSE]

\* the ValidationResult after a validator ran
Store(res, r) == [res EXCEPT !.errors = r.errors, !.warnings = r.warnings]

\* the context of the step validator during the call in progress
Ctx == [files |-> fs, tfp |-> test_file_path[self], impl |-> ImplOf(self)]

\* str(file_path) / name: the path prefix of the call's messages
MsgPath == call.file_path

NoCall == [op |-> "none", file_path |-> NoPath]

\* no call of a second thread: the validator is used by one thread
NoOther == [pc |-> "none", self |-> "", file_path |-> NoPath, tfp |-> NoPath]
NoGen == [op |-> "none", file |-> NoPath, out |-> NoPath, format |-> "",
          status |-> "", content |-> <<>>, queue |-> <<>>, input |-> NoPath,
          output |-> NoPath, verdicts |-> <<>>, tfp |-> NoPath,
          args |-> <<>>, total_errors |-> 0, exit |-> -1]

\* validate_file that goes on with the result the call before left behind
StartValidateFile_keeps_result(v, file_path) ==
    /\ test_file_path' = [test_file_path EXCEPT ![v] = Resolve(file_path)]
    /\ self' = v
    /\ call' = [op |-> "validate_file", file_path |-> file_path]
    /\ result' = [result EXCEPT !.file_path = file_path, !.test_data = JNull]
    /\ data' = JNull
    /\ branch' = "none"
    /\ idx' = 0
    /\ ran' = {}
    /\ pc' = "read"

\* the first statements of validate_file(file_path) on validator v
StartValidateFile(v, file_path) ==
    /\ test_file_path' = [test_file_path EXCEPT ![v] = Resolve(file_path)]
    /\ self' = v
    /\ call' = [op |-> "validate_file", file_path |-> file_path]
    /\ result' = ValidationResult(file_path)
    /\ data' = JNull
    /\ branch' = "none"
    /\ idx' = 0
    /\ ran' = {}
    /\ pc' = "read"

\* ------------------------------------------------------------------------
\* The calls in one piece
\* ------------------------------------------------------------------------
RECURSIVE validate_cases(_, _, _, _, _)
\* the loop over the cases of a screen test
validate_cases(ctx, cases, path, r, i) ==
    IF r.raised \/ i > Len(cases) THEN r
    ELSE LET case_path == path \o ".cases[" \o ToString(i - 1) \o "]"
             r1 == IF ctx.impl = "modular"
                   THEN validate_case(ctx, cases[i], case_path, r)
                   ELSE Legacy_validate_case(ctx, cases[i], case_path, r)
         IN validate_cases(ctx, cases, path, r1, i + 1)

\* TestValidator._validate_test(data, path, result) in one piece, on a
\* validator of class ctx.impl whose _test_file_path is ctx.tfp
validate_test_data(ctx, d, path, r) ==
    IF ~IsDict(d) THEN Raise(r)
    ELSE
      LET test_type == GetOr(d, "type", JNull)
      IN CASE test_type = JStr("screen") ->
                LET r1 == IF ctx.impl = "modular"
                          THEN screen_validate_head(d, path, r)
                          ELSE Legacy_screen_validate_head(d, path, r)
                    r2 == IF r1.raised THEN r1
                          ELSE validate_cases(ctx,
                                   PyIter(GetOr(d, "cases", JList(<<>>)))[2], path, r1, 1)
                IN IF r2.raised THEN r2
                   ELSE validate_sections(ctx, d, path, r2, <<"setup", "teardown">>)
           [] test_type = JStr("flow") ->
                LET r1 == IF ctx.impl = "modular"
                          THEN check_subdirectory_references(d, path, r)
                          ELSE r
                IN IF r1.raised THEN r1 ELSE flow_validate_steps(ctx, d, path, r1)
           [] OTHER ->
                Err(r, path, "Unknown or missing test type: " \o PyStr(test_type))

\* what the client of validate_data(data, name) gets from a validator of
\* class impl whose _test_file_path is tfp: the exception, or the messages
validate_data(impl, tfp, d, name) ==
    LET r == validate_test_data([files |-> fs, tfp |-> tfp, impl |-> impl], d, name,
                                Acc(ValidationResult(name)))
    IN IF r.raised THEN <<"raised">> ELSE <<"returned", r.errors, r.warnings>>

\* what the client of validate_file(file_path) gets from a validator of class
\* impl whose _test_file_path is tfp while the file is validated
validate_file(impl, tfp, file_path) ==
    LET got == load_json(fs, file_path)
        r0 == Acc(ValidationResult(file_path))
        b == IF got[1] = "ok" THEN classify(file_path, got[2]) ELSE "none"
        r == CASE got[1] = "JSONDecodeError" -> Err(r0, file_path, "Invalid JSON: <e>")
               [] got[1] = "Exception" -> Err(r0, file_path, "Cannot read file: <e>")
               [] b = "raise" -> Raise(r0)
               [] b \in {"test", "test_by_type"} ->
                     validate_test_data([files |-> fs, tfp |-> tfp, impl |-> impl],
                                        got[2], file_path, r0)
               [] b = "description" -> description_validate(got[2], file_path, r0)
               [] OTHER ->
                     Err(r0, file_path,
                         "Unknown file type: expected test file (.test.json) or description file")
    IN IF r.raised THEN <<"raised">> ELSE <<"returned", r.errors, r.warnings>>

\* ------------------------------------------------------------------------
\* Bounds of the model
\* ------------------------------------------------------------------------
\* calls a client makes on the validators and generators, one after another
MaxCalls == 2

\* ------------------------------------------------------------------------
\* The calls a client can make
\* ------------------------------------------------------------------------
\* a path that names no file
MissingFile == "/p/t/missing.test.json"

\* the same file named relative to the working directory
RelativePaths == {SubSeq(f, Len(Cwd) + 2, Len(f)) :
                    f \in {g \in DOMAIN fs : Len(g) > Len(Cwd) + 1
                                             /\ SubSeq(g, 1, Len(Cwd) + 1) = Cwd \o "/"}}

\* the paths a client passes to validate_file
Targets == DOMAIN fs \cup {MissingFile} \cup RelativePaths

\* the payloads a client passes to validate_data
DataTargets == {fs[f].data : f \in {g \in DOMAIN fs : fs[g].kind = "json"}}

Idle == pc = "idle" /\ gen.op = "none" /\ ncalls < MaxCalls

\* TestValidator.validate_file(file_path): set the paths, create the result
validate_file_begin ==
    /\ Idle
    /\ \E v \in Impls, file_path \in Targets : StartValidateFile(v, file_path)
    /\ ncalls' = ncalls + 1
    /\ UNCHANGED <<fs, gen, written, generated_files, other>>

\* a try block whose except branches record the error and fall through to
\* the classification
read_json_falls_through ==
    /\ pc = "read"
    /\ LET got == load_json(fs, call.file_path)
       IN CASE got[1] = "ok" ->
                 /\ data' = got[2]
                 /\ result' = [result EXCEPT !.test_data = got[2]]
            [] got[1] = "JSONDecodeError" ->
                 /\ result' = Store(result, Err(Acc(result), MsgPath, "Invalid JSON: <e>"))
                 /\ UNCHANGED data
            [] OTHER ->
                 /\ result' = Store(result, Err(Acc(result), MsgPath, "Cannot read file: <e>"))
                 /\ UNCHANGED data
    /\ pc' = "classify"
    /\ UNCHANGED <<fs, test_file_path, self, call, branch, idx, ran, gen, written,
                   generated_files, ncalls, other>>

\* validate_file: the try block that opens and parses the file
read_json ==
    /\ pc = "read"
    /\ LET got == load_json(fs, call.file_path)
       IN CASE got[1] = "ok" ->
                 /\ data' = got[2]
                 /\ result' = [result EXCEPT !.test_data = got[2]]
                 /\ pc' = "classify"
            [] got[1] = "JSONDecodeError" ->
                 /\ result' = Store(result, Err(Acc(result), MsgPath, "Invalid JSON: <e>"))
                 /\ pc' = "returned"
                 /\ UNCHANGED data
            [] OTHER ->
                 /\ result' = Store(result, Err(Acc(result), MsgPath, "Cannot read file: <e>"))
                 /\ pc' = "returned"
                 /\ UNCHANGED data
    /\ UNCHANGED <<fs, test_file_path, self, call, branch, idx, ran, gen, written,
                   generated_files, ncalls, other>>

\* validate_file: the if/elif chain that picks the validator
classify_file ==
    /\ pc = "classify"
    /\ LET b == classify(call.file_path, data)
       IN IF b = "raise"
          THEN pc' = "raised" /\ UNCHANGED branch
          ELSE pc' = "dispatch" /\ branch' = b
    /\ UNCHANGED <<fs, test_file_path, self, call, data, result, idx, ran, gen, written,
                   generated_files, ncalls, other>>

\* TestValidator.validate_data(data, name)
validate_data_begin ==
    /\ Idle
    /\ \E v \in Impls, d \in DataTargets :
          /\ self' = v
          /\ call' = [op |-> "validate_data", file_path |-> "test"]
          /\ result' = [ValidationResult("test") EXCEPT !.test_data = d]
          /\ data' = d
    /\ branch' = "test"
    /\ idx' = 0
    /\ ran' = {}
    /\ pc' = "dispatch"
    /\ ncalls' = ncalls + 1
    /\ UNCHANGED <<fs, test_file_path, gen, written, generated_files, other>>

\* TestValidator._validate_test
validate_test ==
    /\ pc = "dispatch"
    /\ branch \in {"test", "test_by_type"}
    /\ ran' = ran \cup {"test"}
    /\ IF ~IsDict(data)                          \* data.get: AttributeError
       THEN pc' = "raised" /\ UNCHANGED result
       ELSE LET test_type == GetOr(data, "type", JNull)
            IN CASE test_type = JStr("screen") ->
                       pc' = "screen_head" /\ UNCHANGED result
                 [] test_type = JStr("flow") ->
                       /\ pc' = IF ImplOf(self) = "modular" THEN "flow_prescan" ELSE "flow_steps"
                       /\ UNCHANGED result
                 [] OTHER ->
                       /\ result' = Store(result, Err(Acc(result), MsgPath,
                              "Unknown or missing test type: " \o PyStr(test_type)))
                       /\ pc' = "returned"
    /\ UNCHANGED <<fs, test_file_path, self, call, data, branch, idx, gen, written,
                   generated_files, ncalls, other>>

\* validate_file: the description branch
validate_description ==
    /\ pc = "dispatch"
    /\ branch = "description"
    /\ ran' = ran \cup {"description"}
    /\ LET r == description_validate(data, MsgPath, Acc(result))
       IN /\ result' = Store(result, r)
          /\ pc' = IF r.raised THEN "raised" ELSE "returned"
    /\ UNCHANGED <<fs, test_file_path, self, call, data, branch, idx, gen, written,
                   generated_files, ncalls, other>>

\* validate_file: the final else
unknown_file_type ==
    /\ pc = "dispatch"
    /\ branch = "unknown"
    /\ result' = Store(result, Err(Acc(result), MsgPath,
           "Unknown file type: expected test file (.test.json) or description file"))
    /\ pc' = "returned"
    /\ UNCHANGED <<fs, test_file_path, self, call, data, branch, idx, ran, gen, written,
                   generated_files, ncalls, other>>

\* the cases the screen validator walks over
CaseList == PyIter(GetOr(data, "cases", JList(<<>>)))[2]

\* ScreenTestValidator.validate / _validate_screen_test: before the case loop
screen_head ==
    /\ pc = "screen_head"
    /\ ran' = ran \cup {"screen"}
    /\ LET r == IF ImplOf(self) = "modular"
                THEN screen_validate_head(data, MsgPath, Acc(result))
                ELSE Legacy_screen_validate_head(data, MsgPath, Acc(result))
       IN /\ result' = Store(result, r)
          /\ pc' = IF r.raised THEN "raised"
                   ELSE IF Len(CaseList) = 0 THEN "screen_sections"
                   ELSE "screen_cases"
    /\ idx' = 1
    /\ UNCHANGED <<fs, test_file_path, self, call, data, branch, gen, written,
                   generated_files, ncalls, other>>

\* one turn of the loop over the cases: _validate_case(case, case_path, result)
screen_case ==
    /\ pc = "screen_cases"
    /\ ran' = ran \cup {"case", "step"}
    /\ LET case_path == MsgPath \o ".cases[" \o ToString(idx - 1) \o "]"
           r == IF ImplOf(self) = "modular"
                THEN validate_case(Ctx, CaseList[idx], case_path, Acc(result))
                ELSE Legacy_validate_case(Ctx, CaseList[idx], case_path, Acc(result))
       IN /\ result' = Store(result, r)
          /\ pc' = IF r.raised THEN "raised"
                   ELSE IF idx = Len(CaseList) THEN "screen_sections"
                   ELSE "screen_cases"
    /\ idx' = idx + 1
    /\ UNCHANGED <<fs, test_file_path, self, call, data, branch, gen, written,
                   generated_files, ncalls, other>>

\* the setup/teardown loop that ends the screen validator
screen_sections ==
    /\ pc = "screen_sections"
    /\ ran' = ran \cup {"step"}
    /\ LET r == validate_sections(Ctx, data, MsgPath, Acc(result), <<"setup", "teardown">>)
       IN /\ result' = Store(result, r)
          /\ pc' = IF r.raised THEN "raised" ELSE "returned"
    /\ UNCHANGED <<fs, test_file_path, self, call, data, branch, idx, gen, written,
                   generated_files, ncalls, other>>

\* FlowTestValidator.validate: the pre-scan (the modular validator only)
flow_prescan ==
    /\ pc = "flow_prescan"
    /\ ran' = ran \cup {"flow"}
    /\ LET r == check_subdirectory_references(data, MsgPath, Acc(result))
       IN /\ result' = Store(result, r)
          /\ pc' = IF r.raised THEN "raised" ELSE "flow_steps"
    /\ UNCHANGED <<fs, test_file_path, self, call, data, branch, idx, gen, written,
                   generated_files, ncalls, other>>

\* FlowTestValidator.validate / _validate_flow_test: the step loop
flow_steps ==
    /\ pc = "flow_steps"
    /\ ran' = ran \cup {"flow", "step"}
    /\ LET r == flow_validate_steps(Ctx, data, MsgPath, Acc(result))
       IN /\ result' = Store(result, r)
          /\ pc' = IF r.raised THEN "raised" ELSE "returned"
    /\ UNCHANGED <<fs, test_file_path, self, call, data, branch, idx, gen, written,
                   generated_files, ncalls, other>>

\* the call ends: the client has the result (or the exception)
return_result ==
    /\ \/ pc \in {"returned", "raised"} /\ gen.op = "none"
       \/ pc = "gen_done"
    /\ pc' = "idle"
    /\ self' = "modular"
    /\ call' = NoCall
    /\ data' = JNull
    /\ result' = ValidationResult(NoPath)
    /\ branch' = "none"
    /\ idx' = 0
    /\ ran' = {}
    /\ gen' = NoGen
    /\ generated_files' = <<>>
    /\ UNCHANGED <<fs, test_file_path, written, ncalls, other>>

\* ------------------------------------------------------------------------
\* generator.py: DocumentGenerator.generate and generate_html_directory
\* ------------------------------------------------------------------------
\* the output_path arguments of generate (None: return the content)
OutputPaths == {NoPath, "/out/doc.out"}

\* the format arguments of generate
Formats == {"markdown", "html", "pdf"}

\* the output_dir argument of generate_html_directory
OutputDir == "/out/html"

\* open(path, 'w').write(content): the file at path is replaced
WriteFile(files, path, kind, source, entries) ==
    {w \in files : w.path # path}
        \cup {[path |-> path, kind |-> kind, source |-> source, entries |-> entries]}

\* a generate that renders whatever the validation found
generate_outcome_unchecked(res, raised, render_raises, format, out) ==
    CASE raised -> "exception"
      [] format \notin {"markdown", "html"} -> "ValueError: Unsupported format"
      [] render_raises -> "exception"
      [] out # NoPath -> "written"
      [] OTHER -> "content"

\* how DocumentGenerator.generate ends, given the validation's result,
\* whether validation or rendering raised, the format and output_path
generate_outcome(res, raised, render_raises, format, out) ==
    CASE raised -> "exception"
      [] ~is_valid(res) -> "ValueError: Validation failed"
      [] format \notin {"markdown", "html"} -> "ValueError: Unsupported format"
      [] render_raises -> "exception"
      [] out # NoPath -> "written"
      [] OTHER -> "content"

\* DocumentGenerator.generate: up to the call of validate_file
generate_begin ==
    /\ Idle
    /\ \E file_path \in Targets, out \in OutputPaths, format \in Formats :
          /\ gen' = [NoGen EXCEPT !.op = "generate", !.file = file_path, !.out = out,
                                  !.format = format, !.tfp = Resolve(file_path),
                                  !.status = "running"]
          /\ StartValidateFile("generator", file_path)
    /\ ncalls' = ncalls + 1
    /\ UNCHANGED <<fs, written, generated_files, other>>

\* DocumentGenerator.generate: after validate_file; _generate_markdown and
\* _generate_html only read the result, and may raise on it
generate_finish ==
    /\ gen.op = "generate"
    /\ pc \in {"returned", "raised"}
    /\ \E render_raises \in BOOLEAN :
          LET o == generate_outcome(result, pc = "raised", render_raises,
                                    gen.format, gen.out)
          IN /\ gen' = [gen EXCEPT !.status = o,
                           !.content = IF o = "content" THEN <<gen.format, gen.file>>
                                       ELSE <<>>]
             /\ written' = IF o = "written"
                           THEN WriteFile(written, gen.out, gen.format, gen.file, <<>>)
                           ELSE written
    /\ pc' = "gen_done"
    /\ UNCHANGED <<fs, test_file_path, self, call, data, result, branch, idx, ran,
                   generated_files, ncalls, other>>

\* a < b for paths: pathlib compares the parts, so "/" ranks below any character
PathLess(a, b) ==
    \E i \in 1..(Len(b)) :
        /\ \A j \in 1..(i - 1) : j <= Len(a) /\ CharAt(a, j) = CharAt(b, j)
        /\ \/ i = Len(a) + 1
           \/ /\ i <= Len(a)
              /\ CharAt(a, i) # CharAt(b, i)
              /\ \/ CharAt(a, i) = "/"
                 \/ CharAt(b, i) # "/" /\ Ord(CharAt(a, i)) < Ord(CharAt(b, i))

RECURSIVE SortedPaths(_)
\* sorted(test_files)
SortedPaths(S) ==
    IF S = {} THEN <<>>
    ELSE LET m == CHOOSE x \in S : \A y \in S \ {x} : PathLess(x, y)
         IN <<m>> \o SortedPaths(S \ {m})

\* input_path.rglob("*.test.json")
rglob(files, input_dir) ==
    {f \in DOMAIN files : /\ Len(f) > Len(input_dir) + 1
                          /\ SubSeq(f, 1, Len(input_dir) + 1) = input_dir \o "/"
                          /\ EndsWith(PathName(f), ".test.json")}

\* the input_dir arguments of generate_html_directory
InputDirs == {PathParent(f) : f \in DOMAIN fs} \cup {"/p", "/nowhere"}

\* rel_path.with_suffix('.html').name for a name ending in ".json"
HtmlFilename(test_file) ==
    SubSeq(PathName(test_file), 1, Len(PathName(test_file)) - 5) \o ".html"

\* the subdirectory of the output for result.test_data.get('type', 'unknown')
HtmlSubdir(d) ==
    LET test_type == GetOr(d, "type", JStr("unknown"))
    IN CASE test_type = JStr("screen") -> "screens"
         [] test_type = JStr("flow") -> "flows"
         [] OTHER -> "other"

\* collecting the info for the index raises: metadata.get on a non-dict, or
\* len(steps) on a number
index_info_raises(d) ==
    \/ HasKey(d, "metadata") /\ ~IsDict(Get(d, "metadata"))
    \/ /\ Truthy(GetOr(d, "steps", JList(<<>>)))
       /\ Kind(GetOr(d, "steps", JList(<<>>))) \notin {"list", "dict", "str"}

\* what the loop body of generate_html_directory does with one test file
html_outcome(res, raised, render_raises) ==
    CASE raised -> "error"
      [] ~is_valid(res) -> "skipped"
      [] ~IsDict(res.test_data) -> "error"
      [] render_raises -> "error"
      [] index_info_raises(res.test_data) -> "written, then error"
      [] OTHER -> "generated"

\* generate_html_directory: up to the loop
html_dir_begin ==
    /\ Idle
    /\ \E input_dir \in InputDirs :
          LET test_files == rglob(fs, input_dir)
              g == [NoGen EXCEPT !.op = "html_dir", !.input = input_dir,
                                 !.output = OutputDir]
          IN IF test_files = {}
             THEN /\ gen' = [g EXCEPT !.status = "ValueError: No .test.json files found"]
                  /\ pc' = "gen_done"
             ELSE /\ gen' = [g EXCEPT !.status = "running",
                                      !.queue = SortedPaths(test_files)]
                  /\ pc' = "gen_loop"
    /\ generated_files' = <<>>
    /\ ncalls' = ncalls + 1
    /\ UNCHANGED <<fs, test_file_path, self, call, data, result, branch, idx, ran,
                   written, other>>

\* generate_html_directory: the loop takes the next test file and validates it
html_dir_next ==
    /\ pc = "gen_loop"
    /\ gen.queue # <<>>
    /\ gen' = [gen EXCEPT !.file = Head(gen.queue), !.queue = Tail(gen.queue)]
    /\ StartValidateFile("generator", Head(gen.queue))
    /\ UNCHANGED <<fs, written, generated_files, ncalls, other>>

\* generate_html_directory: the loop body after validate_file
html_dir_file_done ==
    /\ gen.op = "html_dir"
    /\ pc \in {"returned", "raised"}
    /\ \E render_raises \in BOOLEAN :
          LET o == html_outcome(result, pc = "raised", render_raises)
              html_path == PathJoin(PathJoin(gen.output, HtmlSubdir(result.test_data)),
                                    HtmlFilename(gen.file))
          IN /\ written' = IF o \in {"generated", "written, then error"}
                           THEN WriteFile(written, html_path, "html", gen.file, <<>>)
                           ELSE written
             /\ generated_files' =
                   IF o = "generated"
                   THEN Append(generated_files,
                               [path |-> html_path, source |-> gen.file,
                                type |-> HtmlSubdir(result.test_data)])
                   ELSE generated_files
             /\ gen' = [gen EXCEPT !.verdicts = Append(@, <<gen.file, o>>),
                                   !.tfp = IF pc = "returned" /\ is_valid(result)
                                                /\ IsDict(result.test_data)
                                           THEN Resolve(gen.file) ELSE @]
    /\ pc' = "gen_loop"
    /\ UNCHANGED <<fs, test_file_path, self, call, data, result, branch, idx, ran,
                   ncalls, other>>

\* generate_html_directory: _generate_index_html and the return
html_dir_finish ==
    /\ pc = "gen_loop"
    /\ gen.queue = <<>>
    /\ written' = WriteFile(written, PathJoin(gen.output, "index.html"), "index",
                            NoPath, generated_files)
    /\ gen' = [gen EXCEPT !.status = "returned"]
    /\ pc' = "gen_done"
    /\ UNCHANGED <<fs, test_file_path, self, call, data, result, branch, idx, ran,
                   generated_files, ncalls, other>>

\* ------------------------------------------------------------------------
\* cli.py: cmd_validate
\* ------------------------------------------------------------------------
\* desc_dir.glob("*.json") for every directory desc_dir of p.rglob("descriptions")
description_files(files, p) ==
    {f \in DOMAIN files : /\ Len(f) > Len(p) + 1
                          /\ SubSeq(f, 1, Len(p) + 1) = p \o "/"
                          /\ PathParent(f) # p
                          /\ PathName(PathParent(f)) = "descriptions"
                          /\ EndsWith(PathName(f), ".json")}

\* what one path of args.files adds to files_to_validate
collect(files, path) ==
    CASE IsDir(files, path) ->
            SortedPaths(rglob(files, path)) \o SortedPaths(description_files(files, path))
      [] PathExists(files, path) -> <<path>>
      [] OTHER -> <<>>

RECURSIVE files_to_validate(_, _)
\* the list the first loop of cmd_validate builds from args.files
files_to_validate(files, args) ==
    IF args = <<>> THEN <<>>
    ELSE collect(files, Head(args)) \o files_to_validate(files, Tail(args))

\* sorted(files_to_validate): a file collected twice stays twice in the list
SortedList(list) ==
    LET S == {list[i] : i \in 1..Len(list)}
        ordered == SortedPaths(S)
        times(p) == Cardinality({i \in 1..Len(list) : list[i] = p})
        F[k \in 0..Len(ordered)] ==
            IF k = 0 THEN <<>>
            ELSE F[k - 1] \o [i \in 1..times(ordered[k]) |-> ordered[k]]
    IN F[Len(ordered)]

\* the paths given on the command line that are "Path not found"
paths_not_found(files, args) ==
    {args[i] : i \in {j \in 1..Len(args) : ~PathExists(files, args[j])}}

\* the paths a user names on the command line
CliPaths == DOMAIN fs \cup {MissingFile, "/p"}

\* args.files: one path, or a missing path or a directory followed by a
\* second path (the files are sorted, so the order of the paths is immaterial)
CliArgs ==
    {<<a>> : a \in CliPaths}
    \cup {<<a, b>> : a \in {MissingFile, "/p"}, b \in CliPaths \ {MissingFile}}

\* cmd_validate: a validator of its own, the collection of the files, and the
\* return when there is none
cmd_validate_begin ==
    /\ Idle
    /\ \E args \in CliArgs :
          LET list == files_to_validate(fs, args)
              g == [NoGen EXCEPT !.op = "cmd_validate", !.args = args]
          IN IF list = <<>>
             THEN /\ gen' = [g EXCEPT !.status = "returned", !.exit = 1]
                  /\ pc' = "gen_done"
             ELSE /\ gen' = [g EXCEPT !.status = "running", !.queue = SortedList(list)]
                  /\ pc' = "cli_loop"
    /\ test_file_path' = [test_file_path EXCEPT !["cli"] = NoPath]
    /\ ncalls' = ncalls + 1
    /\ UNCHANGED <<fs, self, call, data, result, branch, idx, ran, written,
                   generated_files, other>>

\* cmd_validate: the loop takes the next file and validates it
cmd_validate_next ==
    /\ pc = "cli_loop"
    /\ gen.queue # <<>>
    /\ gen' = [gen EXCEPT !.file = Head(gen.queue), !.queue = Tail(gen.queue)]
    /\ StartValidateFile("cli", Head(gen.queue))
    /\ UNCHANGED <<fs, written, generated_files, ncalls, other>>

\* cmd_validate: the loop body after validate_file adds the errors of the file;
\* an exception of validate_file is caught nowhere and ends the process with
\* the interpreter's exit status 1
cmd_validate_file_done ==
    /\ gen.op = "cmd_validate"
    /\ pc \in {"returned", "raised"}
    /\ IF pc = "raised"
       THEN /\ gen' = [gen EXCEPT !.status = "raised", !.exit = 1]
            /\ test_file_path' = [test_file_path EXCEPT !["cli"] = NoPath]
            /\ pc' = "gen_done"
       ELSE /\ gen' = [gen EXCEPT
                         !.total_errors = @ + Len(result.errors),
                         !.verdicts = Append(@, <<gen.file, Len(result.errors)>>)]
            /\ pc' = "cli_loop"
            /\ UNCHANGED test_file_path
    /\ UNCHANGED <<fs, self, call, data, result, branch, idx, ran,
                   written, generated_files, ncalls, other>>

\* return 1 if total_errors > 0 else 0
exit_code(total_errors) == IF total_errors > 0 THEN 1 ELSE 0

\* cmd_validate: the summary and the return, which ends the life of the
\* validator of the call
cmd_validate_finish ==
    /\ pc = "cli_loop"
    /\ gen.queue = <<>>
    /\ gen' = [gen EXCEPT !.status = "returned", !.exit = exit_code(gen.total_errors)]
    /\ test_file_path' = [test_file_path EXCEPT !["cli"] = NoPath]
    /\ pc' = "gen_done"
    /\ UNCHANGED <<fs, self, call, data, result, branch, idx, ran,
                   written, generated_files, ncalls, other>>

\* ------------------------------------------------------------------------
\* The files the validators are run on
\* ------------------------------------------------------------------------
\* {"k": v, ...} from a sequence of pairs, leaving out the pairs marked absent
Absent == <<"absent">>
Obj(pairs) == JDict(SelectSeq(pairs, LAMBDA kv : kv[2] # Absent))

Metadata == JDict(<< <<"name", JStr("m")>> >>)

\* a test case with the given args (or Absent) and steps
Case(args, steps) ==
    Obj(<< <<"name", JStr("c")>>, <<"description", JStr("d")>>, <<"args", args>>,
           <<"steps", JList(steps)>> >>)

\* a screen test with the given cases
ScreenDoc(cases) ==
    JDict(<< <<"type", JStr("screen")>>, <<"metadata", Metadata>>,
             <<"cases", JList(cases)>> >>)

\* a flow test with the given steps
FlowDoc(steps) ==
    JDict(<< <<"type", JStr("flow")>>, <<"metadata", Metadata>>,
             <<"steps", JList(steps)>> >>)

\* a file system with one file
OneFile(path, d) == path :> JsonFile(d)

MainTest == "/p/t/a.test.json"
FlowTest == "/p/t/flows/f.test.json"

\* values stored under the `action` and `assert` keys of a step
ActionValues == {Absent, JStr("tap"), JStr(""), JNull, JInt(0), JBool(FALSE)}
AssertValues == {Absent, JStr("visible"), JStr(""), JNull}

\* a step with the given `action` and `assert` entries and an id
HeadStep(a, s) == Obj(<< <<"action", a>>, <<"assert", s>>, <<"id", JStr("x")>> >>)

\* screen tests of one case whose steps have every pairing of an `action`
\* value with the `assert` values
HeadDocs ==
    {ScreenDoc(<<Case(Absent, <<HeadStep(a, JStr("visible")), HeadStep(a, Absent)>>)>>) :
        a \in ActionValues}
    \cup {ScreenDoc(<<Case(Absent, <<HeadStep(a, JStr("")), HeadStep(a, JNull)>>)>>) :
        a \in ActionValues}

\* a well-formed value for a step parameter
ParamValue(p) ==
    CASE p \in {"ms", "timeout"} -> JInt(5)
      [] p = "ids" -> JList(<<JStr("a")>>)
      [] p = "direction" -> JStr("up")
      [] OTHER -> JStr("v")

\* how a required parameter appears in a step
Presence == <<"absent", "value", "null">>

RECURSIVE Pow3(_)
\* 3^k
Pow3(k) == IF k = 0 THEN 1 ELSE 3 * Pow3(k - 1)

\* the j-th way the k required parameters of a name can appear (j in 1..3^k)
Appearance(k, j) == [i \in 1..k |-> Presence[(((j - 1) \div Pow3(i - 1)) % 3) + 1]]

\* a step named `name` under key `kw` whose required parameters appear as
\* `how` says
RequiredStep(kw, name, required, how) ==
    JDict(<< <<kw, JStr(name)>> >> \o
          SelectSeq([i \in 1..Len(required) |->
                        <<required[i],
                          CASE how[i] = "absent" -> Absent
                            [] how[i] = "value" -> ParamValue(required[i])
                            [] OTHER -> JNull>>],
                    LAMBDA kv : kv[2] # Absent))

\* for a supported name, the screen test of one case with one step per way
\* the name's required parameters can appear
RequiredDoc(kw, name, required) ==
    ScreenDoc(<<Case(Absent,
        [j \in 1..Pow3(Len(required)) |->
            RequiredStep(kw, name, required, Appearance(Len(required), j))])>>)

RequiredDocs ==
    {RequiredDoc("action", n, SUPPORTED_ACTIONS[n].required) : n \in DOMAIN SUPPORTED_ACTIONS}
    \cup {RequiredDoc("assert", n, SUPPORTED_ASSERTIONS[n].required) :
            n \in DOMAIN SUPPORTED_ASSERTIONS}

\* the `args` of a screen case
CaseArgs ==
    {Absent, JDict(<<>>), JDict(<< <<"a", JStr("x")>> >>),
     JDict(<< <<"a", JStr("x")>>, <<"b", JInt(1)>> >>),
     JList(<<JStr("a")>>)}

Input(id, value) ==
    JDict(<< <<"action", JStr("input")>>, <<"id", JStr(id)>>, <<"value", value>> >>)

\* step lists with `@{...}` in string values, in keys, nested, malformed
PlaceholderSteps ==
    {<<Input("f", JStr("@{a}"))>>,
     <<Input("@{a}", JStr("@{a} and @{b}"))>>,
     <<Input("@{a}@{a}", JStr("v")),
       JDict(<< <<"assert", JStr("text")>>, <<"id", JStr("t")>>,
                <<"equals", JStr("x@{b}y")>> >>)>>,
     <<Input("f", JStr("@{}"))>>,
     <<Input("f", JStr("@{a"))>>,
     <<JDict(<< <<"action", JStr("waitForAny")>>,
                <<"ids", JList(<<JStr("x"), JStr("@{a}")>>)>> >>)>>,
     <<Input("f", JDict(<< <<"k", JList(<<JInt(1), JStr("@{b}")>>)>> >>))>>,
     <<JDict(<< <<"action", JStr("tap")>>, <<"id", JStr("x")>>,
                <<"@{a}", JStr("v")>> >>)>>,
     <<Input("f", JStr("v"))>>,
     <<Input("f", JStr("@{a b}@{c}"))>>}

\* screen tests whose case uses placeholders, and one with two cases
PlaceholderDocs ==
    {ScreenDoc(<<Case(args, steps)>>) : args \in CaseArgs, steps \in PlaceholderSteps}
    \cup {ScreenDoc(<<Case(JDict(<< <<"a", JStr("x")>> >>), <<Input("f", JStr("@{a}"))>>),
                      Case(Absent, <<Input("@{b}", JStr("@{a}"))>>)>>)}

\* the screen test a flow refers to: case "input" with two arguments
LoginDoc ==
    ScreenDoc(<<Obj(<< <<"name", JStr("input")>>, <<"description", JStr("d")>>,
                       <<"args", JDict(<< <<"userName", JStr("u0")>>,
                                          <<"password", JStr("p0")>> >>)>>,
                       <<"steps", JList(<<Input("user", JStr("@{userName}")),
                                          Input("pass", JStr("@{password}"))>>)>> >>)>>)

\* where the referenced screen test lies: under screens/, beside the flow
LoginPaths == {"/p/t/screens/login.test.json", "/p/t/flows/login.test.json"}

\* the `args` of a flow's file step
FlowArgs ==
    {Absent, JDict(<<>>),
     JDict(<< <<"userName", JStr("u")>> >>),
     JDict(<< <<"userName", JStr("u")>>, <<"password", JStr("p")>> >>),
     JDict(<< <<"bogus", JStr("v")>> >>),
     JDict(<< <<"userName", JStr("u")>>, <<"bogus", JStr("v")>> >>),
     JStr("s"), JList(<<JStr("a")>>), JInt(5), JNull,
     JDict(<< <<"userName", JDict(<< <<"k", JStr("v")>> >>)>> >>),
     JDict(<< <<"userName", JList(<<JStr("a")>>)>> >>),
     JDict(<< <<"userName", JNull>> >>),
     JDict(<< <<"userName", JInt(5)>> >>),
     JDict(<< <<"userName", JBool(TRUE)>> >>),
     JDict(<< <<"userName", JFloat("1.5")>> >>)}

\* {"file": "login", "case": "input", "args": args}
FileStep(args) ==
    Obj(<< <<"file", JStr("login")>>, <<"case", JStr("input")>>, <<"args", args>> >>)

\* a flow with one file step, and the screen test it refers to
FlowScenarios ==
    {OneFile(FlowTest, FlowDoc(<<FileStep(args)>>)) @@ OneFile(lp, LoginDoc) :
        args \in FlowArgs, lp \in LoginPaths}
    \cup {OneFile(FlowTest, FlowDoc(<<FileStep(args)>>)) :
            args \in {Absent, JDict(<< <<"bogus", JStr("v")>> >>)}}

\* payloads that steer validate_file's classification
DispatchPayloads ==
    {JDict(<<>>),
     ScreenDoc(<<Case(Absent, <<Input("f", JStr("v"))>>)>>),
     FlowDoc(<<Input("f", JStr("v"))>>),
     JDict(<< <<"type", JStr("other")>> >>),
     JDict(<< <<"type", JInt(5)>> >>),
     JDict(<< <<"case_name", JStr("n")>>, <<"summary", JStr("s")>> >>),
     JDict(<< <<"case_name", JStr("n")>>, <<"type", JStr("screen")>> >>),
     JInt(5), JNull, JStr("s"), JStr("a case_name"), JStr("type"),
     JList(<<>>), JList(<<JStr("type")>>), JList(<<JStr("case_name")>>)}

\* where the payloads lie
DispatchPaths ==
    {MainTest, "/p/t/a.json", "/p/descriptions/a.json", "/p/descriptions/a.test.json"}

\* files below the working directory, reached by relative paths
RelativeScenarios ==
    {OneFile(p, d) :
        p \in {"/w/descriptions/d.json", "/w/d.json", "/w/d.test.json"},
        d \in {JDict(<<>>), FlowDoc(<<Input("f", JStr("v"))>>),
               JDict(<< <<"case_name", JStr("n")>> >>)}}

\* test files whose fields have unexpected types
OddDocs ==
    {JDict(<< <<"type", JStr("screen")>>, <<"cases", JInt(5)>> >>),
     JDict(<< <<"type", JStr("screen")>>, <<"cases", JStr("")>> >>),
     ScreenDoc(<<JInt(5)>>),
     ScreenDoc(<<JStr("name")>>),
     ScreenDoc(<<Case(Absent, <<JInt(5)>>)>>),
     ScreenDoc(<<Case(Absent, <<JStr("tap")>>)>>),
     ScreenDoc(<<Case(Absent, <<JDict(<< <<"action", JList(<<JStr("tap")>>)>> >>)>>)>>),
     JDict(<< <<"type", JStr("screen")>>, <<"metadata", JInt(5)>>,
              <<"cases", JList(<<Case(Absent, <<Input("f", JStr("v"))>>)>>)>> >>),
     JDict(<< <<"type", JStr("screen")>>, <<"source", JDict(<< <<"web", JStr("w")>> >>)>>,
              <<"cases", JList(<<>>)>>,
              <<"setup", JList(<<Input("f", JStr("v"))>>)>> >>),
     JDict(<< <<"type", JStr("screen")>>, <<"metadata", Metadata>>,
              <<"cases", JList(<<Case(Absent, <<Input("f", JStr("v"))>>)>>)>>,
              <<"steps", JInt(5)>> >>),
     JDict(<< <<"type", JList(<<JStr("screen")>>)>> >>),
     FlowDoc(<<JDict(<< <<"file", JInt(5)>> >>)>>),
     FlowDoc(<<JDict(<< <<"file", JStr("screens/login")>> >>)>>),
     FlowDoc(<<JInt(5)>>),
     FlowDoc(<<JDict(<< <<"block", JStr("b")>>,
                        <<"steps", JList(<<Input("f", JStr("v"))>>)>> >>)>>),
     JDict(<< <<"type", JStr("flow")>>, <<"steps", JInt(5)>> >>)}

\* a step that names a test file
FileRef(ref) == JDict(<< <<"file", ref>> >>)

\* a block step with the given inner steps
Block(name, steps) == JDict(<< <<"block", name>>, <<"steps", JList(steps)>> >>)

\* steps with a `file` or a `block` key, well-formed and not, and a plain step
GatedSteps ==
    << FileRef(JStr("login")),
       JDict(<< <<"file", JStr("login")>>, <<"case", JStr("input")>>,
                <<"args", JDict(<< <<"userName", JStr("@{u}")>> >>)>>,
                <<"action", JStr("nope")>>, <<"bogus", JInt(1)>> >>),
       Block(JStr("b"), <<Input("f", JStr("v"))>>),
       JDict(<< <<"block", JStr("b")>> >>),
       JDict(<< <<"file", JStr("login")>>, <<"block", JStr("b")>>,
                <<"steps", JList(<<>>)>> >>),
       JDict(<< <<"block", JNull>>, <<"steps", JInt(5)>>, <<"action", JStr("tap")>> >>),
       FileRef(JStr("")),
       Input("f", JStr("v")) >>

\* the same steps in a case of a screen test, in the setup of a screen test,
\* and as the steps of a flow test
GatedDocs ==
    {ScreenDoc(<<Case(Absent, GatedSteps \o <<FileRef(JInt(5))>>)>>),
     JDict(<< <<"type", JStr("screen")>>, <<"metadata", Metadata>>,
              <<"setup", JList(GatedSteps)>>,
              <<"cases", JList(<<Case(Absent, <<FileRef(JStr("login"))>>)>>)>> >>),
     FlowDoc(GatedSteps)}

\* flow tests whose block steps hold file references and blocks
BlockDocs ==
    {FlowDoc(<<Block(JStr("b"),
                     << FileRef(JStr("login")),
                        Block(JStr("n"), <<Block(JStr("deep"), <<Input("f", JStr("v"))>>)>>),
                        JDict(<< <<"file", JStr("login")>>, <<"block", JStr("n")>>,
                                 <<"case", JInt(5)>> >>),
                        Input("f", JStr("v")),
                        JDict(<< <<"block", JStr("")>> >>),
                        FileRef(JInt(5)) >>),
               Block(JStr("c"), <<Input("f", JStr("v")), FileRef(JStr("a/b"))>>)>>),
     FlowDoc(<<Block(JStr(" "), <<FileRef(JStr("login")), Input("f", JStr("v"))>>)>>)}

\* the step made of the n-th choice of each of the options (n counted from 0):
\* options is a sequence of <<key, sequence of values>>
RECURSIVE Choice(_, _)
Choice(options, n) ==
    IF options = <<>> THEN <<>>
    ELSE LET values == Head(options)[2]
         IN << <<Head(options)[1], values[(n % Len(values)) + 1]>> >>
            \o Choice(Tail(options), n \div Len(values))

RECURSIVE Choices(_)
\* how many steps the options make
Choices(options) ==
    IF options = <<>> THEN 1 ELSE Len(Head(options)[2]) * Choices(Tail(options))

\* all steps that have the fixed pairs and one value of each option
StepsOf(fixed, options) ==
    [n \in 1..Choices(options) |-> Obj(fixed \o Choice(options, n - 1))]

\* `text` assertion steps: with and without id, equals, contains and action
TextSteps ==
    StepsOf(<< <<"assert", JStr("text")>> >>,
            << <<"id", <<Absent, JStr("x")>> >>,
               <<"equals", <<Absent, JStr("e"), JNull>> >>,
               <<"contains", <<Absent, JStr("c")>> >>,
               <<"action", <<Absent, JStr("tap"), JStr("")>> >> >>)

\* a screen test and a flow test with all of these steps
TextDocs == {ScreenDoc(<<Case(Absent, TextSteps)>>), FlowDoc(TextSteps)}

\* scroll and swipe steps with the four directions, with other values and
\* without a direction; some of them carry an assertion too
DirectionSteps ==
    StepsOf(<< <<"id", JStr("x")>> >>,
            << <<"direction", <<Absent, JStr("up"), JStr("down"), JStr("left"),
                                JStr("right"), JStr("diagonal"), JStr("UP"), JStr(""),
                                JNull, JInt(5), JList(<<JStr("up")>>),
                                JDict(<< <<"up", JInt(1)>> >>)>> >>,
               <<"action", <<JStr("scroll"), JStr("swipe")>> >>,
               <<"assert", <<Absent, Absent, Absent, JStr("visible")>> >> >>)

\* a screen test and a flow test with all of these steps
DirectionDocs == {ScreenDoc(<<Case(Absent, DirectionSteps)>>), FlowDoc(DirectionSteps)}

\* a flow whose file steps name a test that may exist and one that does not,
\* alone and next to valid steps
DanglingSteps ==
    << FileRef(JStr("login")),
       JDict(<< <<"file", JStr("login")>>, <<"case", JStr("input")>> >>),
       JDict(<< <<"file", JStr("nowhere")>>, <<"cases", JList(<<JStr("input")>>)>> >>),
       JDict(<< <<"file", JStr("nowhere")>>, <<"case", JStr("")>> >>),
       Input("f", JStr("v")) >>

DanglingScenarios ==
    {OneFile(FlowTest, FlowDoc(DanglingSteps)),
     OneFile(FlowTest, FlowDoc(DanglingSteps)) @@ OneFile("/p/t/flows/login.json", LoginDoc),
     OneFile(FlowTest, FlowDoc(SubSeq(DanglingSteps, 1, 3)))
        @@ OneFile("/p/t/screens/login/login.test.json", LoginDoc)}

\* a step with neither `action` nor `assert`, and a tap without its `id`
NoVerbStep == JDict(<< <<"id", JStr("x")>> >>)
TapWithoutId == JDict(<< <<"action", JStr("tap")>> >>)

\* a flow test with the given setup, steps and teardown
SectionedFlow(setup, steps, teardown) ==
    JDict(<< <<"type", JStr("flow")>>, <<"metadata", Metadata>>,
             <<"setup", JList(setup)>>, <<"steps", JList(steps)>>,
             <<"teardown", JList(teardown)>> >>)

\* flow tests with a setup and a teardown: valid ones, and ones whose setup,
\* teardown or steps hold an invalid step
SectionDocs ==
    {SectionedFlow(<<Input("f", JStr("v"))>>, <<Input("f", JStr("v"))>>,
                   <<Input("f", JStr("v"))>>),
     SectionedFlow(<<NoVerbStep>>, <<Input("f", JStr("v"))>>, <<>>),
     SectionedFlow(<<>>, <<Input("f", JStr("v"))>>, <<Input("f", JStr("v")), TapWithoutId>>),
     SectionedFlow(<<TapWithoutId>>, <<NoVerbStep>>, <<NoVerbStep>>),
     SectionedFlow(<<Input("f", JStr("v")), NoVerbStep>>, <<>>, <<TapWithoutId>>)}

\* file steps whose `file` is not a non-empty string, with `case` and `cases`
\* keys that a file step must not have; the `file` values of the first list
\* can be searched for a character, those of the second cannot
BadFileSteps ==
    << JDict(<< <<"file", JStr(" ")>>, <<"case", JInt(5)>>, <<"cases", JList(<<>>)>>,
                <<"bogus", JInt(1)>> >>),
       JDict(<< <<"file", JStr("")>>, <<"case", JStr("")>> >>),
       JDict(<< <<"file", JList(<<JStr("login")>>)>>, <<"cases", JStr("x")>> >>),
       JDict(<< <<"file", JDict(<< <<"login", JInt(1)>> >>)>> >>),
       FileRef(JStr(" 	")),
       Input("f", JStr("v")),
       FileRef(JStr("login")) >>

UnsearchableFileSteps ==
    << FileRef(JNull),
       JDict(<< <<"file", JBool(TRUE)>>, <<"case", JStr("input")>> >>),
       JDict(<< <<"file", JInt(0)>>, <<"cases", JList(<<JInt(1)>>)>> >> ) >>

\* flow tests with these steps, next to a test the name `login` refers to
BadFileScenarios ==
    {OneFile(FlowTest, FlowDoc(steps)) @@ OneFile("/p/t/flows/login.test.json", LoginDoc) :
        steps \in {BadFileSteps, <<Input("f", JStr("v"))>> \o UnsearchableFileSteps}
                  \cup {<<UnsearchableFileSteps[n]>> : n \in 1..Len(UnsearchableFileSteps)}}

\* file steps that name `login`, with every pair of a `case` and a `cases`
\* value: absent, well-shaped and not
CaseKeySteps ==
    StepsOf(<< <<"file", JStr("login")>> >>,
            << <<"case", <<Absent, JStr("input"), JStr(""), JStr(" "), JInt(5), JNull,
                           JList(<<JStr("input")>>)>> >>,
               <<"cases", <<Absent, JList(<<JStr("input")>>),
                            JList(<<JStr("input"), JStr("login")>>), JList(<<>>),
                            JList(<<JStr("input"), JStr("")>>),
                            JList(<<JStr(" "), JStr("input")>>), JList(<<JInt(5)>>),
                            JStr("input"), JInt(5), JNull,
                            JDict(<< <<"input", JInt(1)>> >>)>> >> >>)

\* a flow test with all of these steps, with and without the test they name
CaseKeyScenarios ==
    {OneFile(FlowTest, FlowDoc(CaseKeySteps)),
     OneFile(FlowTest, FlowDoc(CaseKeySteps))
        @@ OneFile("/p/t/screens/login.test.json", LoginDoc)}

\* values of a `timeout` or `ms` key
DurationValues ==
    << JInt(5), JInt(1), JInt(0), JInt(-100), JStr("5000"), JStr(""), JFloat("1.5"),
       JFloat("5.0"), JBool(TRUE), JBool(FALSE), JNull, JList(<<JInt(5)>>) >>

\* a step of the action with its required parameters and the given `timeout`
\* and `ms` (Absent: the key is left out, or keeps its required value)
DurationStep(action, timeout, ms) ==
    LET required == SUPPORTED_ACTIONS[action].required
        given == [timeout |-> timeout, ms |-> ms]
    IN Obj(<< <<"action", JStr(action)>> >>
           \o [i \in 1..Len(required) |->
                 <<required[i],
                   IF required[i] \in {"timeout", "ms"} /\ given[required[i]] # Absent
                   THEN Absent ELSE ParamValue(required[i])>>]
           \o << <<"timeout", timeout>>, <<"ms", ms>> >>)

\* for every supported action, a screen test whose case has the action with
\* each value as `timeout`, with each value as `ms`, and with both keys
DurationDocs ==
    {ScreenDoc(<<Case(Absent,
        [n \in 1..Len(DurationValues) |-> DurationStep(a, DurationValues[n], Absent)]
        \o [n \in 1..Len(DurationValues) |-> DurationStep(a, Absent, DurationValues[n])]
        \o << DurationStep(a, JInt(0), JBool(TRUE)), DurationStep(a, JInt(7), JInt(3)),
              DurationStep(a, JStr("x"), JFloat("1.5")) >>)>>) :
      a \in DOMAIN SUPPORTED_ACTIONS}

\* a screen test whose cases have `args` of every shape: not a map, a map
\* with values that are not primitive, a map of primitives
ArgsDocs ==
    {ScreenDoc(<< Case(JStr("s"), <<Input("f", JStr("v"))>>),
                  Case(JList(<<JDict(<< <<"a", JStr("x")>> >>)>>), <<Input("f", JStr("v"))>>),
                  Case(JNull, <<Input("f", JStr("v"))>>),
                  Case(JBool(FALSE), <<>>),
                  Case(JDict(<< <<"s", JStr("")>>, <<"i", JInt(0)>>, <<"f", JFloat("1.5")>>,
                                <<"b", JBool(FALSE)>> >>), <<Input("f", JStr("@{s}"))>>),
                  Case(JDict(<< <<"n", JNull>>, <<"s", JStr("x")>>,
                                <<"l", JList(<<JStr("x")>>)>>, <<"b", JBool(TRUE)>>,
                                <<"m", JDict(<< <<"k", JStr("v")>> >>)>>,
                                <<"e", JList(<<>>)>> >>),
                       <<Input("f", JStr("@{n}@{q}"))>>),
                  Case(JDict(<<>>), <<Input("f", JStr("v"))>>),
                  Case(Absent, <<Input("f", JStr("v"))>>) >>)}

\* steps of many kinds, valid and not
VariedSteps ==
    GatedSteps \o
    << NoVerbStep, TapWithoutId,
       JDict(<< <<"action", JStr("tap")>>, <<"assert", JStr("visible")>>,
                <<"id", JStr("x")>> >>),
       JDict(<< <<"action", JStr("fly")>>, <<"bogus", JInt(1)>> >>),
       JDict(<< <<"action", JStr("waitFor")>>, <<"id", JStr("x")>>,
                <<"timeout", JInt(0)>> >>),
       JDict(<< <<"assert", JStr("text")>>, <<"id", JStr("x")>> >>),
       JDict(<< <<"action", JStr("scroll")>>, <<"id", JStr("x")>>,
                <<"direction", JStr("diagonal")>> >>),
       JDict(<< <<"action", JStr("waitForAny")>>, <<"ids", JList(<<>>)>> >>) >>

\* screen tests with the same steps in a case, in `setup` and in `teardown`
MirrorDocs ==
    {JDict(<< <<"type", JStr("screen")>>, <<"metadata", Metadata>>,
              <<"setup", JList(VariedSteps)>>,
              <<"cases", JList(<<Case(Absent, VariedSteps)>>)>>,
              <<"teardown", JList(VariedSteps)>> >>),
     JDict(<< <<"type", JStr("screen")>>, <<"metadata", Metadata>>,
              <<"cases", JList(<<Case(Absent, <<Input("f", JStr("v")), NoVerbStep>>),
                                 Case(Absent, <<TapWithoutId>>)>>)>>,
              <<"teardown", JList(<<TapWithoutId, NoVerbStep, TapWithoutId>>)>> >>)}

\* flow tests whose setup, steps and teardown refer to files with `/` and `\`
\* in the name, and one whose references all do and are well-formed
SeparatorDocs ==
    {SectionedFlow(<< FileRef(JStr("a/b")), Input("f", JStr("v")) >>,
                   << FileRef(JStr("screens/login")), FileRef(JStr("login")),
                      FileRef(JStr("x\\y")), FileRef(JStr("/")),
                      FileRef(JList(<<JStr("/")>>)), FileRef(JDict(<< <<"\\", JInt(1)>> >>)),
                      JDict(<< <<"file", JStr("a/b\\c")>>, <<"case", JStr("input")>> >>),
                      FileRef(JList(<<JStr("a/b")>>)),
                      Block(JStr("b"), <<FileRef(JStr("c/d"))>>) >>,
                   << FileRef(JStr("t\\u")), TapWithoutId >>),
     FlowDoc(<< FileRef(JStr("screens/login")),
                JDict(<< <<"file", JStr("a\\b")>>,
                         <<"cases", JList(<<JStr("input")>>)>> >>) >>)}

\* a step with an unknown action and an unknown key
UnknownActionStep == JDict(<< <<"action", JStr("fly")>>, <<"bogus", JInt(1)>> >>)

\* flow tests with block steps of every shape: the name a string or not,
\* `steps` missing, not a list, empty, with valid and invalid inner steps;
\* the inner steps are steps of the flow as well
BlockShapeDocs ==
    {FlowDoc(<< Input("f", JStr("v")), TapWithoutId, NoVerbStep, UnknownActionStep,
                Block(JStr("b"), << Input("f", JStr("v")), TapWithoutId, NoVerbStep,
                                    UnknownActionStep, FileRef(JStr("login")),
                                    Block(JStr("n"), <<TapWithoutId>>) >>),
                JDict(<< <<"block", JStr("b")>>, <<"steps", JInt(5)>>,
                         <<"extra", JInt(1)>> >>),
                JDict(<< <<"block", JStr("b")>>, <<"steps", JList(<<>>)>> >>),
                JDict(<< <<"block", JStr("b")>>, <<"steps", JStr("tap")>> >>),
                JDict(<< <<"block", JStr("b")>>,
                         <<"steps", JDict(<< <<"action", JStr("tap")>> >>)>> >>),
                JDict(<< <<"block", JStr("b")>>, <<"description", JStr("d")>>,
                         <<"extra", JInt(1)>> >>),
                JDict(<< <<"block", JStr("")>>, <<"steps", JList(<<TapWithoutId>>)>>,
                         <<"bogus", JInt(1)>> >>),
                JDict(<< <<"block", JInt(5)>>, <<"steps", JList(<<NoVerbStep>>)>> >>),
                JDict(<< <<"block", JStr(" ")>>, <<"steps", JInt(5)>> >>),
                JDict(<< <<"block", JList(<<JStr("b")>>)>> >>),
                JDict(<< <<"block", JStr("d")>>, <<"descriptionFile", JStr("missing.md")>>,
                         <<"steps", JList(<<TapWithoutId, Input("f", JStr("v"))>>)>> >>) >>)}

\* a directory with a valid and an invalid test file
MixedScenarios ==
    {OneFile(MainTest, ScreenDoc(<<Case(Absent, <<Input("f", JStr("v"))>>)>>))
        @@ OneFile("/p/t/b.test.json",
                   ScreenDoc(<<Case(Absent, <<JDict(<< <<"id", JStr("x")>> >>)>>)>>))}

\* a file that is not JSON, and one that cannot be read
BrokenScenarios == {MainTest :> BadJsonFile, MainTest :> UnreadableFile}

\* the file systems the validators and generators are run on
Scenarios ==
    {OneFile(MainTest, d) : d \in HeadDocs \cup RequiredDocs \cup PlaceholderDocs \cup OddDocs}
    \cup {OneFile(MainTest, d) : d \in GatedDocs \cup BlockDocs \cup TextDocs
                                    \cup DirectionDocs \cup SectionDocs
                                    \cup DurationDocs \cup ArgsDocs \cup MirrorDocs
                                    \cup SeparatorDocs \cup BlockShapeDocs}
    \cup FlowScenarios
    \cup DanglingScenarios
    \cup BadFileScenarios
    \cup CaseKeyScenarios
    \cup {OneFile(p, d) : p \in DispatchPaths, d \in DispatchPayloads}
    \cup RelativeScenarios
    \cup MixedScenarios
    \cup BrokenScenarios

\* ------------------------------------------------------------------------
\* The state machine
\* ------------------------------------------------------------------------
Init ==
    /\ fs \in Scenarios
    /\ test_file_path = [v \in Validators |-> NoPath]
    /\ pc = "idle"
    /\ self = "modular"
    /\ call = NoCall
    /\ data = JNull
    /\ result = ValidationResult(NoPath)
    /\ branch = "none"
    /\ idx = 0
    /\ ran = {}
    /\ gen = NoGen
    /\ written = {}
    /\ generated_files = <<>>
    /\ ncalls = 0
    /\ other = NoOther

Next ==
    \/ validate_file_begin
    \/ validate_data_begin
    \/ read_json
    \/ classify_file
    \/ validate_test
    \/ validate_description
    \/ unknown_file_type
    \/ screen_head
    \/ screen_case
    \/ screen_sections
    \/ flow_prescan
    \/ flow_steps
    \/ return_result
    \/ generate_begin
    \/ generate_finish
    \/ html_dir_begin
    \/ html_dir_next
    \/ html_dir_file_done
    \/ html_dir_finish

Spec == Init /\ [][Next]_vars

\* ------------------------------------------------------------------------
\* The validate command
\* ------------------------------------------------------------------------
\* the runs of cmd_validate: its own steps and those of the validate_file
\* calls it makes on its validator (validator.py's TestValidator, which has
\* no pre-scan)
NextCli ==
    \/ cmd_validate_begin
    \/ cmd_validate_next
    \/ cmd_validate_file_done
    \/ cmd_validate_finish
    \/ read_json
    \/ classify_file
    \/ validate_test
    \/ validate_description
    \/ unknown_file_type
    \/ screen_head
    \/ screen_case
    \/ screen_sections
    \/ flow_steps
    \/ return_result

SpecCli == Init /\ [][NextCli]_vars

\* ------------------------------------------------------------------------
\* Two threads on one validator
\* ------------------------------------------------------------------------
\* A second thread calls validate_file while the call of the first thread is
\* anywhere between its statements. The validators keep one _test_file_path
\* per object and no lock, so the two calls share it. The call of the second
\* thread is taken in two steps, its first statements and the rest, which is
\* enough for either call to run between the statements of the other.

\* the second thread: the first statements of validate_file(file_path)
other_validate_file_begin ==
    /\ other.pc = "none"
    /\ \E v \in Impls, file_path \in Targets :
          /\ test_file_path' = [test_file_path EXCEPT ![v] = Resolve(file_path)]
          /\ other' = [pc |-> "started", self |-> v, file_path |-> file_path,
                       tfp |-> NoPath]
    /\ UNCHANGED <<fs, pc, self, call, data, result, branch, idx, ran, gen, written,
                   generated_files, ncalls>>

\* the second thread: the rest of validate_file reads the _test_file_path the
\* validator has by now; the files never change, so what the call returns is
\* validate_file(class, other.tfp, other.file_path)
other_validate_file_finish ==
    /\ other.pc = "started"
    /\ other' = [other EXCEPT !.pc = "returned", !.tfp = test_file_path[other.self]]
    /\ UNCHANGED <<fs, test_file_path, pc, self, call, data, result, branch, idx, ran,
                   gen, written, generated_files, ncalls>>

\* a case of a screen test with a description file
DescribedCase ==
    JDict(<< <<"name", JStr("c")>>, <<"descriptionFile", JStr("descriptions/d.json")>>,
             <<"steps", JList(<<Input("f", JStr("v"))>>)>> >>)

\* two directories: /p/t/flows with a flow and the test it refers to, and /q
\* with a flow that refers to a test of that name that /q does not have, a
\* screen test with its description file, and a file of unknown type
InterleavedScenarios ==
    {OneFile(FlowTest, FlowDoc(<<FileRef(JStr("login"))>>))
        @@ OneFile("/p/t/flows/login.test.json", LoginDoc)
        @@ OneFile("/q/g.test.json", FlowDoc(<<FileRef(JStr("login"))>>))
        @@ OneFile("/q/s.test.json", ScreenDoc(<<DescribedCase>>))
        @@ OneFile("/q/descriptions/d.json",
                   JDict(<< <<"case_name", JStr("c")>>, <<"summary", JStr("s")>> >>))
        @@ OneFile("/q/u.json", JDict(<<>>))}

InitInterleaved ==
    /\ fs \in InterleavedScenarios
    /\ test_file_path = [v \in Validators |-> NoPath]
    /\ pc = "idle"
    /\ self = "modular"
    /\ call = NoCall
    /\ data = JNull
    /\ result = ValidationResult(NoPath)
    /\ branch = "none"
    /\ idx = 0
    /\ ran = {}
    /\ gen = NoGen
    /\ written = {}
    /\ generated_files = <<>>
    /\ ncalls = 0
    /\ other = NoOther

\* one validate_file of the first thread and one of the second
NextInterleaved ==
    \/ validate_file_begin
    \/ read_json
    \/ classify_file
    \/ validate_test
    \/ validate_description
    \/ unknown_file_type
    \/ screen_head
    \/ screen_case
    \/ screen_sections
    \/ flow_prescan
    \/ flow_steps
    \/ other_validate_file_begin
    \/ other_validate_file_finish

SpecInterleaved == InitInterleaved /\ [][NextInterleaved]_vars

\* ------------------------------------------------------------------------
\* Description files
\* ------------------------------------------------------------------------
\* description documents with every combination of these values of
\* `case_name`, `summary`, `preconditions` and `notes`, with and without an
\* unknown key
DescriptionFields ==
    StepsOf(<<>>,
            << <<"case_name", <<Absent, JStr("n"), JStr(""), JStr(" "), JInt(5), JNull>> >>,
               <<"summary", <<Absent, JStr(""), JInt(5)>> >>,
               <<"preconditions", <<Absent, JList(<<JStr("a"), JStr("")>>), JList(<<>>),
                                    JList(<<JStr("a"), JInt(5)>>), JStr("a")>> >>,
               <<"notes", <<Absent, JStr("s"), JList(<<JStr("s")>>)>> >>,
               <<"bogus", <<Absent, JList(<<JInt(5)>>)>> >> >>)

\* named description documents with every pair of these values of
\* `test_procedure` and `expected_results`
DescriptionLists ==
    StepsOf(<< <<"case_name", JStr("n")>> >>,
            << <<"test_procedure", <<Absent, JList(<<JStr("a")>>), JList(<<JNull>>),
                                     JDict(<< <<"a", JStr("b")>> >>), JNull>> >>,
               <<"expected_results", <<Absent, JList(<<>>), JList(<<JList(<<>>)>>),
                                       JInt(0), JStr("")>> >> >>)

DescriptionDocs ==
    {DescriptionFields[n] : n \in 1..Len(DescriptionFields)}
    \cup {DescriptionLists[n] : n \in 1..Len(DescriptionLists)}

\* a description document in a `descriptions` directory and outside of one
DescriptionScenarios ==
    {OneFile(p, d) : p \in {"/p/t/descriptions/d.json", "/p/t/d.json"},
                     d \in DescriptionDocs}

\* validate_file on a new pair of validators and a description document
InitDescription ==
    /\ fs \in DescriptionScenarios
    /\ test_file_path = [v \in Validators |-> NoPath]
    /\ pc = "idle"
    /\ self = "modular"
    /\ call = NoCall
    /\ data = JNull
    /\ result = ValidationResult(NoPath)
    /\ branch = "none"
    /\ idx = 0
    /\ ran = {}
    /\ gen = NoGen
    /\ written = {}
    /\ generated_files = <<>>
    /\ ncalls = 0
    /\ other = NoOther

NextDescription ==
    \/ validate_file_begin
    \/ read_json
    \/ classify_file
    \/ validate_description
    \/ unknown_file_type
    \/ return_result

SpecDescription == InitDescription /\ [][NextDescription]_vars

\* ------------------------------------------------------------------------
\* File references
\* ------------------------------------------------------------------------
\* where a flow test with the step {"file": "login"} lies
ResolveFlows == {"/p/t/flows/f.test.json", "/p/t/flows/sub/f.test.json", "/p/x/f.test.json"}

\* the files the name `login` can refer to from these places
ResolveFiles ==
    {"/p/t/flows/login.test.json", "/p/t/flows/login.json",
     "/p/t/screens/login/login.test.json", "/p/t/screens/login.test.json",
     "/p/t/flows/login/login.test.json", "/p/t/flows/sub/login.test.json",
     "/p/t/flows/sub/login", "/p/x/login.json", "/p/x/screens/login.test.json",
     "/p/x/flows/login.test.json"}

\* the flow test next to none, one or two of these files
ResolveScenarios ==
    {OneFile(f, FlowDoc(<<FileRef(JStr("login"))>>)) @@ [p \in present |-> JsonFile(LoginDoc)] :
        f \in ResolveFlows,
        present \in {ps \in SUBSET ResolveFiles : Cardinality(ps) <= 2}}

InitResolve ==
    /\ fs \in ResolveScenarios
    /\ test_file_path = [v \in Validators |-> NoPath]
    /\ pc = "idle"
    /\ self = "modular"
    /\ call = NoCall
    /\ data = JNull
    /\ result = ValidationResult(NoPath)
    /\ branch = "none"
    /\ idx = 0
    /\ ran = {}
    /\ gen = NoGen
    /\ written = {}
    /\ generated_files = <<>>
    /\ ncalls = 0
    /\ other = NoOther

\* one validate_file call
NextResolve ==
    \/ validate_file_begin
    \/ read_json
    \/ classify_file
    \/ validate_test
    \/ flow_prescan
    \/ flow_steps
    \/ screen_head
    \/ screen_case
    \/ screen_sections

SpecResolve == InitResolve /\ [][NextResolve]_vars

\* ------------------------------------------------------------------------
\* Properties
\* ------------------------------------------------------------------------
\* a validate_file or validate_data call has returned its result
Finished == pc = "returned" /\ call.op # "none"

\* the cases of a screen test payload, the steps of a case
ScreenCases(d) ==
    IF IsDict(d) /\ GetOr(d, "type", JNull) = JStr("screen")
                 /\ IsList(GetOr(d, "cases", JNull))
    THEN Items(Get(d, "cases")) ELSE <<>>

CaseSteps(case) ==
    IF IsDict(case) /\ IsList(GetOr(case, "steps", JNull))
    THEN Items(Get(case, "steps")) ELSE <<>>

\* the message paths of case i and of its step j (counted from 1)
CasePath(i) == MsgPath \o ".cases[" \o ToString(i - 1) \o "]"
StepPath(i, j) == CasePath(i) \o ".steps[" \o ToString(j - 1) \o "]"

\* a step with neither a `file` nor a `block` key
PlainStep(step) == IsDict(step) /\ ~HasKey(step, "file") /\ ~HasKey(step, "block")

\* how many of the messages have this path and this text
Count(msgs, path, message) ==
    Cardinality({k \in 1..Len(msgs) : msgs[k].path = path /\ msgs[k].message = message})

\* how many of the messages have this path and a text starting with prefix
CountPrefix(msgs, path, prefix) ==
    Cardinality({k \in 1..Len(msgs) :
        /\ msgs[k].path = path
        /\ Len(msgs[k].message) >= Len(prefix)
        /\ SubSeq(msgs[k].message, 1, Len(prefix)) = prefix})

\* C1: in every state of a ValidationResult, is_valid is true exactly when
\* the errors list is empty, and neither the number nor the content of the
\* warnings changes is_valid.
C1_ValidIffNoErrors ==
    /\ is_valid(result) <=> result.errors = <<>>
    /\ \A w \in {<<>>, result.warnings, result.warnings \o result.errors,
                 <<ValidationMessage("p", "m", "warning")>>} :
          is_valid([result EXCEPT !.warnings = w]) = is_valid(result)

\* a returned result that has warnings, no error, and is valid
C1_Witness ==
    Finished /\ result.warnings # <<>> /\ result.errors = <<>> /\ is_valid(result)

\* C2: for every step without a `file` or `block` key, "cannot have both" is
\* recorded exactly when both the `action` and the `assert` key are present,
\* and "must have either" exactly when neither key is present, whatever the
\* values stored under the keys.
C2_BothOrNeitherByKey ==
    Finished =>
      \A i \in 1..Len(ScreenCases(data)) :
        \A j \in 1..Len(CaseSteps(ScreenCases(data)[i])) :
          LET step == CaseSteps(ScreenCases(data)[i])[j]
              both == HasKey(step, "action") /\ HasKey(step, "assert")
              neither == ~HasKey(step, "action") /\ ~HasKey(step, "assert")
          IN PlainStep(step) =>
               /\ both <=> Count(result.errors, StepPath(i, j),
                                 "Step cannot have both 'action' and 'assert'") > 0
               /\ neither <=> Count(result.errors, StepPath(i, j),
                                    "Step must have either 'action' or 'assert'") > 0

\* the schema entry of a step that carries a supported name under the key kw
\* and does not have the other key
SchemaOf(kw) == IF kw = "action" THEN SUPPORTED_ACTIONS ELSE SUPPORTED_ASSERTIONS

NamedStep(step, kw) ==
    /\ PlainStep(step)
    /\ HasKey(step, kw)
    /\ ~HasKey(step, IF kw = "action" THEN "assert" ELSE "action")
    /\ IsStr(Get(step, kw))
    /\ Get(step, kw)[2] \in DOMAIN SchemaOf(kw)

MissingMessage(p, kw, name) ==
    "Missing required parameter '" \o p \o "' for "
        \o (IF kw = "action" THEN "action" ELSE "assertion") \o " '" \o name \o "'"

\* C3: a step of a supported action or assertion name has, for every
\* parameter p of the name's required list, exactly one error "Missing
\* required parameter 'p' ..." when key p is absent and none when it is
\* present; it has no other missing-parameter error.
C3_MissingRequiredExact ==
    Finished =>
      \A i \in 1..Len(ScreenCases(data)) :
        \A j \in 1..Len(CaseSteps(ScreenCases(data)[i])) :
          \A kw \in {"action", "assert"} :
            LET step == CaseSteps(ScreenCases(data)[i])[j]
                name == Get(step, kw)[2]
                required == SchemaOf(kw)[name].required
            IN NamedStep(step, kw) =>
                 /\ \A k \in 1..Len(required) :
                       Count(result.errors, StepPath(i, j),
                             MissingMessage(required[k], kw, name))
                         = IF HasKey(step, required[k]) THEN 0 ELSE 1
                 /\ CountPrefix(result.errors, StepPath(i, j),
                                "Missing required parameter '")
                      = Cardinality({k \in 1..Len(required) : ~HasKey(step, required[k])})

\* a returned result for an `input` step whose id is present with a null
\* value and whose value is absent: one error, for the value
C3_Witness ==
    /\ Finished
    /\ \E i \in 1..Len(ScreenCases(data)) :
         \E j \in 1..Len(CaseSteps(ScreenCases(data)[i])) :
           LET step == CaseSteps(ScreenCases(data)[i])[j]
           IN /\ NamedStep(step, "action")
              /\ Get(step, "action") = JStr("input")
              /\ GetOr(step, "id", Absent) = JNull
              /\ ~HasKey(step, "value")
              /\ Count(result.errors, StepPath(i, j),
                       MissingMessage("value", "action", "input")) = 1
              /\ Count(result.errors, StepPath(i, j),
                       MissingMessage("id", "action", "input")) = 0

RECURSIVE StringValues(_)
\* the strings that are values of obj at any nesting depth of maps and lists
StringValues(obj) ==
    CASE IsStr(obj) -> {obj[2]}
      [] IsDict(obj) -> UNION {StringValues(Pairs(obj)[i][2]) : i \in 1..Len(Pairs(obj))}
      [] IsList(obj) -> UNION {StringValues(Items(obj)[i]) : i \in 1..Len(Items(obj))}
      [] OTHER -> {}

\* `@{n}` occurs in s, for a non-empty name n without "}"
OccursIn(n, s) ==
    /\ n # ""
    /\ ~StrContains(n, "}")
    /\ StrContains(s, "@{" \o n \o "}")

\* the names n such that `@{n}` occurs in a string value under the steps
UsedNames(steps) ==
    LET strings == UNION {StringValues(steps[j]) : j \in 1..Len(steps)}
        substrings == UNION {{SubSeq(s, a, b) : a \in 1..Len(s), b \in 1..Len(s)} :
                               s \in strings}
    IN {n \in substrings : \E s \in strings : OccursIn(n, s)}

\* the keys of the case's args (none when args is absent or not a map)
DefinedNames(case) ==
    IF IsDict(GetOr(case, "args", JNull)) THEN KeySet(Get(case, "args")) ELSE {}

UndefinedMessage(n) ==
    "Undefined argument '@{" \o n \o "}' used in steps but not defined in 'args'"

FlowSteps(d) ==
    IF IsDict(d) /\ GetOr(d, "type", JNull) = JStr("flow")
                 /\ IsList(GetOr(d, "steps", JNull))
    THEN Items(Get(d, "steps")) ELSE <<>>

FlowStepPath(j) == MsgPath \o ".steps[" \o ToString(j - 1) \o "]"

\* a step of a flow that refers to a file by a string
FileRefStep(step) == IsDict(step) /\ HasKey(step, "file") /\ IsStr(Get(step, "file"))

\* the cases a file step refers to: the cases named by the step's `case` in
\* the screen test its `file` resolves to, if that file exists
ReferencedCases(step) ==
    LET target == IF ImplOf(self) = "modular"
                  THEN resolve_file_reference(fs, Resolve(call.file_path),
                                              Get(step, "file")[2])
                  ELSE Legacy_resolve_file_reference(fs, Resolve(call.file_path),
                                                     Get(step, "file")[2])
    IN IF target \in DOMAIN fs /\ fs[target].kind = "json"
       THEN {ScreenCases(fs[target].data)[i] : i \in
                {i \in 1..Len(ScreenCases(fs[target].data)) :
                    /\ IsDict(ScreenCases(fs[target].data)[i])
                    /\ HasKey(step, "case")
                    /\ GetOr(ScreenCases(fs[target].data)[i], "name", JNull)
                         = Get(step, "case")}}
       ELSE {}

\* some error of the result contains both texts
ErrorContaining(res, a, b) ==
    \E k \in 1..Len(res.errors) :
        StrContains(res.errors[k].message, a) /\ StrContains(res.errors[k].message, b)

\* C5: when validate_file validates a flow whose file step resolves to an
\* existing screen test and an existing case of it, then for every key k of
\* the step's args an error containing "@{k}" and "not defined in screen" is
\* recorded exactly when k is not a key of the referenced case's args.
C5_FlowArgsDefinedInScreen ==
    (Finished /\ call.op = "validate_file") =>
      \A j \in 1..Len(FlowSteps(data)) :
        LET step == FlowSteps(data)[j]
        IN (FileRefStep(step) /\ IsDict(GetOr(step, "args", JNull))) =>
             \A c \in ReferencedCases(step) :
               \A k \in KeySet(Get(step, "args")) :
                 ErrorContaining(result, "@{" \o k \o "}", "not defined in screen")
                   <=> k \notin DefinedNames(c)

\* C6: a flow file step with an `args` key makes the flow invalid unless
\* args is a map of primitives: an args that is not a map records an error
\* containing "must be an object/dictionary", a map, list or null value
\* records an error containing "primitive type".
C6_FlowArgsWellFormed ==
    Finished =>
      \A j \in 1..Len(FlowSteps(data)) :
        LET step == FlowSteps(data)[j]
            args == Get(step, "args")
            bad_value == \E i \in 1..Len(Pairs(args)) :
                            Kind(Pairs(args)[i][2]) \in {"dict", "list", "null"}
        IN (FileRefStep(step) /\ HasKey(step, "args")) =>
             /\ ~IsDict(args) =>
                   /\ ErrorContaining(result, "must be an object/dictionary", "")
                   /\ ~is_valid(result)
             /\ (IsDict(args) /\ bad_value) =>
                   /\ ErrorContaining(result, "primitive type", "")
                   /\ ~is_valid(result)

\* C7: for every readable file that parses as JSON, whatever the value and
\* the types of its fields, validate_file returns a ValidationResult and
\* never ends in an uncaught exception.
C7_NoUncaughtException ==
    (call.op = "validate_file" /\ load_json(fs, call.file_path)[1] = "ok")
        => pc # "raised"

\* C8: when reading or parsing the file fails, validate_file returns a
\* result with exactly one error, no warnings and no test_data, and none of
\* the screen, flow, description or step validators runs for that file.
C8_ReadFailureShortCircuits ==
    (call.op = "validate_file" /\ load_json(fs, call.file_path)[1] # "ok") =>
        /\ pc \notin {"classify", "dispatch", "screen_head", "screen_cases",
                      "screen_sections", "flow_prescan", "flow_steps", "raised"}
        /\ ran = {}
        /\ branch = "none"
        /\ pc # "read" =>
              /\ Len(result.errors) = 1
              /\ CountPrefix(result.errors, MsgPath,
                    IF load_json(fs, call.file_path)[1] = "JSONDecodeError"
                    THEN "Invalid JSON: " ELSE "Cannot read file: ") = 1
              /\ result.warnings = <<>>
              /\ result.test_data = JNull

\* validate_file has returned for a file that exists and is not JSON
C8_Witness ==
    /\ Finished
    /\ call.op = "validate_file"
    /\ Resolve(call.file_path) \in DOMAIN fs
    /\ load_json(fs, call.file_path) = <<"JSONDecodeError">>
    /\ Len(result.errors) = 1
    /\ ran = {}

\* C9: every parsed file is classified into exactly one branch, in this
\* order: a name ending in .test.json is validated as a test and routed by
\* type (screen, flow, otherwise one error "Unknown or missing test type");
\* otherwise a payload with case_name or a file in a directory named
\* descriptions is validated as a description; otherwise a payload of type
\* screen or flow is validated as a test; otherwise the result holds exactly
\* one error "Unknown file type" and no other message.
C9_ClassifiedInOrder ==
    (call.op = "validate_file" /\ load_json(fs, call.file_path)[1] = "ok"
        /\ pc \in {"returned", "raised"}) =>
      LET d == result.test_data
          type == IF IsDict(d) THEN GetOr(d, "type", JNull) ELSE JNull
          typed == type \in {JStr("screen"), JStr("flow")}
          expected ==
              CASE EndsWith(PathName(call.file_path), ".test.json") -> "test"
                [] (IsDict(d) /\ HasKey(d, "case_name"))
                     \/ PathName(PathParent(call.file_path)) = "descriptions" -> "description"
                [] typed -> "test"
                [] OTHER -> "unknown"
      IN /\ expected = "test" =>
              /\ "test" \in ran /\ "description" \notin ran
              /\ type = JStr("screen") => "screen" \in ran /\ "flow" \notin ran
              /\ type = JStr("flow") => "flow" \in ran /\ "screen" \notin ran
              /\ ~typed =>
                    /\ ran = {"test"}
                    /\ Len(result.errors) = 1
                    /\ CountPrefix(result.errors, MsgPath,
                                   "Unknown or missing test type") = 1
         /\ expected = "description" => ran = {"description"}
         /\ expected = "unknown" =>
              /\ ran = {}
              /\ result.warnings = <<>>
              /\ Len(result.errors) = 1
              /\ CountPrefix(result.errors, MsgPath, "Unknown file type") = 1

\* C10: generation renders only valid documents: when validate_file returns
\* an invalid result, generate ends in the ValueError of the validation,
\* with no content and no file written; generate_html_directory writes no
\* HTML file and adds no index entry for that test file, and the index it
\* writes lists the generated files only.
C10_RendersOnlyValid ==
    [][/\ (gen.op = "generate" /\ pc = "returned" /\ ~is_valid(result)) =>
             /\ pc' = "gen_done"
             /\ gen'.status = "ValueError: Validation failed"
             /\ gen'.content = <<>>
             /\ written' = written
       /\ (gen.op = "html_dir" /\ pc = "returned" /\ ~is_valid(result)) =>
             /\ written' = written
             /\ generated_files' = generated_files
             /\ \A w \in written' : w.source # gen.file
             /\ \A k \in 1..Len(generated_files') : generated_files'[k].source # gen.file
       /\ (gen.op = "html_dir" /\ pc = "gen_loop" /\ pc' = "gen_done") =>
             \E w \in written' :
                /\ w.kind = "index"
                /\ w.entries = generated_files
                /\ \A k \in 1..Len(w.entries) :
                      \E v \in 1..Len(gen.verdicts) :
                         gen.verdicts[v] = <<w.entries[k].source, "generated">>
      ]_vars

\* generate has raised the ValueError for an invalid test file, writing
\* nothing to the output path it was given, after generate_html_directory
\* had left the same file out of the index it wrote
C10_Witness ==
    /\ pc = "gen_done"
    /\ gen.op = "generate"
    /\ gen.status = "ValueError: Validation failed"
    /\ gen.out # NoPath
    /\ gen.content = <<>>
    /\ ~is_valid(result)
    /\ \A w \in written : w.path # gen.out /\ w.source # gen.file
    /\ \E w \in written : w.kind = "index" /\ Len(w.entries) = 1
    /\ gen.file \in rglob(fs, "/p/t")


\* ------------------------------------------------------------------------
\* C11
\* ------------------------------------------------------------------------
\* cmd_validate has returned
CliReturned == gen.op = "cmd_validate" /\ pc = "gen_done" /\ gen.status = "returned"

\* some collected file has a validation error
SomeFileHasError == \E i \in 1..Len(gen.verdicts) : gen.verdicts[i][2] > 0

\* C11: the validate command returns 1 when a collected file has a validation
\* error, when no input file is found, or when a path given on the command
\* line does not exist (also next to paths that validate cleanly), and it
\* returns 0 otherwise.
C11_ExitCode ==
    CliReturned =>
        gen.exit = IF \/ SomeFileHasError
                      \/ files_to_validate(fs, gen.args) = <<>>
                      \/ paths_not_found(fs, gen.args) # {}
                   THEN 1 ELSE 0


\* ------------------------------------------------------------------------
\* C12
\* ------------------------------------------------------------------------
\* the messages recorded for the step at `path`: at the path itself or below it
MessagesAt(msgs, path) ==
    {k \in 1..Len(msgs) :
        \/ msgs[k].path = path
        \/ /\ Len(msgs[k].path) > Len(path)
           /\ SubSeq(msgs[k].path, 1, Len(path) + 1) \in {path \o ".", path \o "["}}

\* a step with a `file` or a `block` key
GatedStep(step) == IsDict(step) /\ (HasKey(step, "file") \/ HasKey(step, "block"))

\* the error of validate_step for such a step outside a flow
OnlyInFlows(step) ==
    IF HasKey(step, "file") THEN "File reference steps are only allowed in flow tests"
    ELSE "Block steps are only allowed in flow tests"

\* some message says "only allowed in flow tests"
SaysOnlyInFlows(msgs) ==
    \E k \in 1..Len(msgs) : StrContains(msgs[k].message, "only allowed in flow tests")

\* the payload is a flow test
IsFlowTest(d) == IsDict(d) /\ GetOr(d, "type", JNull) = JStr("flow")

\* C12: a step with a `file` or a `block` key in a case of a screen test
\* records exactly one error, "... only allowed in flow tests", and no other
\* error or warning for that step; the validation of a flow test never
\* records that error.
C12_FileAndBlockOnlyInFlows ==
    Finished =>
      /\ \A i \in 1..Len(ScreenCases(data)) :
           \A j \in 1..Len(CaseSteps(ScreenCases(data)[i])) :
             LET step == CaseSteps(ScreenCases(data)[i])[j]
             IN GatedStep(step) =>
                  /\ Count(result.errors, StepPath(i, j), OnlyInFlows(step)) = 1
                  /\ Cardinality(MessagesAt(result.errors, StepPath(i, j))) = 1
                  /\ MessagesAt(result.warnings, StepPath(i, j)) = {}
      /\ IsFlowTest(data) =>
           ~SaysOnlyInFlows(result.errors) /\ ~SaysOnlyInFlows(result.warnings)

\* a returned result for a screen test whose case holds a step with both
\* keys, an unknown action and an unknown key: the one error for that step
C12_Witness ==
    /\ Finished
    /\ \E i \in 1..Len(ScreenCases(data)) :
         \E j \in 1..Len(CaseSteps(ScreenCases(data)[i])) :
           LET step == CaseSteps(ScreenCases(data)[i])[j]
           IN /\ GatedStep(step)
              /\ HasKey(step, "file") /\ HasKey(step, "action") /\ HasKey(step, "bogus")
              /\ Count(result.errors, StepPath(i, j), OnlyInFlows(step)) = 1


\* ------------------------------------------------------------------------
\* C13
\* ------------------------------------------------------------------------
\* a block step of a flow
BlockStep(step) == IsDict(step) /\ ~HasKey(step, "file") /\ HasKey(step, "block")

\* the inner steps of a block step
InnerSteps(step) ==
    IF IsList(GetOr(step, "steps", JNull)) THEN Items(Get(step, "steps")) ELSE <<>>

\* the message path of inner step k of step j of the flow (counted from 1)
InnerStepPath(j, k) == FlowStepPath(j) \o ".steps[" \o ToString(k - 1) \o "]"

\* the error of _validate_block_step for an inner step with a `file` or a
\* `block` key
NotInsideBlocks(inner) ==
    IF HasKey(inner, "file") THEN "File references are not allowed inside block steps"
    ELSE "Nested blocks are not allowed inside block steps"

\* the block's name is a non-empty string
NamedBlock(step) == IsStr(Get(step, "block")) /\ StripNonEmpty(Get(step, "block")[2])

\* the inner steps with a `file` or `block` key of the block steps that
\* satisfy `blocks` have their one error and nothing else
InnerStepsRejected(blocks(_)) ==
    Finished =>
      \A j \in 1..Len(FlowSteps(data)) :
        \A k \in 1..Len(InnerSteps(FlowSteps(data)[j])) :
          LET step == FlowSteps(data)[j]
              inner == InnerSteps(step)[k]
          IN (BlockStep(step) /\ blocks(step) /\ GatedStep(inner)) =>
               /\ Count(result.errors, InnerStepPath(j, k), NotInsideBlocks(inner)) = 1
               /\ Cardinality(MessagesAt(result.errors, InnerStepPath(j, k))) = 1
               /\ MessagesAt(result.warnings, InnerStepPath(j, k)) = {}

AnyBlock(step) == TRUE

\* C13 as stated: in every block step of a flow test, each inner step with a
\* `file` key records "File references are not allowed inside block steps"
\* and each inner step with a `block` key and no `file` key records "Nested
\* blocks are not allowed inside block steps", at the inner step's path, and
\* nothing else is recorded at or below that path.
C13_AsStated == InnerStepsRejected(AnyBlock)

\* C13, amended: the same for every block step whose `block` is a non-empty
\* string; inner steps are never validated as file or block steps.
C13_InnerFileAndBlockRejected == InnerStepsRejected(NamedBlock)

\* a returned result for a flow whose block holds a block that holds a block:
\* the one error for the inner block, nothing for the innermost
C13_Witness ==
    /\ Finished
    /\ \E j \in 1..Len(FlowSteps(data)) :
         \E k \in 1..Len(InnerSteps(FlowSteps(data)[j])) :
           LET step == FlowSteps(data)[j]
               inner == InnerSteps(step)[k]
           IN /\ BlockStep(step) /\ NamedBlock(step)
              /\ BlockStep(inner) /\ InnerSteps(inner) # <<>>
              /\ BlockStep(InnerSteps(inner)[1])
              /\ Count(result.errors, InnerStepPath(j, k), NotInsideBlocks(inner)) = 1


\* ------------------------------------------------------------------------
\* C14
\* ------------------------------------------------------------------------
\* the steps of the cases of a screen test and the steps of a flow test, each
\* with its message path
StepsWithPaths ==
    {<<CaseSteps(ScreenCases(data)[i])[j], StepPath(i, j)>> :
        <<i, j>> \in {ij \in (1..Len(ScreenCases(data))) \X (1..40) :
                        ij[2] <= Len(CaseSteps(ScreenCases(data)[ij[1]]))}}
    \cup {<<FlowSteps(data)[j], FlowStepPath(j)>> : j \in 1..Len(FlowSteps(data))}

\* a step without `file` and `block` whose assertion is `text`
TextStep(step) == PlainStep(step) /\ GetOr(step, "assert", JNull) = JStr("text")

TextNeedsOperand == "Text assertion must have 'equals' or 'contains'"

\* the step has neither `equals` nor `contains`
NoOperand(step) == ~HasKey(step, "equals") /\ ~HasKey(step, "contains")

\* C14 as stated: a `text` assertion step (a step validated as an assertion:
\* it names no action) with neither `equals` nor `contains`
\* records "Text assertion must have 'equals' or 'contains'", and one with at
\* least one of the two keys records no error.
C14_AsStated ==
    Finished =>
      \A sp \in StepsWithPaths :
        (TextStep(sp[1]) /\ ~Truthy(GetOr(sp[1], "action", JNull))) =>
          IF NoOperand(sp[1])
          THEN Count(result.errors, sp[2], TextNeedsOperand) = 1
          ELSE MessagesAt(result.errors, sp[2]) = {}

\* C14, amended: a `text` assertion step without an action records the error
\* exactly when it has neither `equals` nor `contains`, and one with at least
\* one of the two keys and with the required `id` records no error.
C14_TextNeedsEqualsOrContains ==
    Finished =>
      \A sp \in StepsWithPaths :
        (TextStep(sp[1]) /\ ~Truthy(GetOr(sp[1], "action", JNull))) =>
          /\ Count(result.errors, sp[2], TextNeedsOperand)
               = IF NoOperand(sp[1]) THEN 1 ELSE 0
          /\ (~NoOperand(sp[1]) /\ HasKey(sp[1], "id")) =>
               MessagesAt(result.errors, sp[2]) = {}

\* a returned result with a `text` step that has only `contains` and no
\* error, and a `text` step that has `id` only and the error
C14_Witness ==
    /\ Finished
    /\ \E sp \in StepsWithPaths :
          /\ TextStep(sp[1]) /\ ~HasKey(sp[1], "action")
          /\ HasKey(sp[1], "id") /\ HasKey(sp[1], "contains") /\ ~HasKey(sp[1], "equals")
          /\ MessagesAt(result.errors, sp[2]) = {}
    /\ \E sp \in StepsWithPaths :
          /\ TextStep(sp[1]) /\ ~HasKey(sp[1], "action")
          /\ HasKey(sp[1], "id") /\ NoOperand(sp[1])
          /\ Count(result.errors, sp[2], TextNeedsOperand) = 1


\* ------------------------------------------------------------------------
\* C15
\* ------------------------------------------------------------------------
\* a step that validate_step validates as an action / as an assertion
ActionStep(step) ==
    /\ PlainStep(step)
    /\ Truthy(GetOr(step, "action", JNull)) /\ ~Truthy(GetOr(step, "assert", JNull))

AssertionStep(step) ==
    /\ PlainStep(step)
    /\ ~Truthy(GetOr(step, "action", JNull)) /\ Truthy(GetOr(step, "assert", JNull))

\* the value is one of the four directions
IsDirection(v) == v \in {JStr("up"), JStr("down"), JStr("left"), JStr("right")}

\* C15: a scroll or swipe action step with a `direction` records an "Invalid
\* direction" error exactly when the value of `direction` is not one of up,
\* down, left, right.
C15_InvalidDirection ==
    Finished =>
      \A sp \in StepsWithPaths :
        (/\ ActionStep(sp[1])
         /\ Get(sp[1], "action") \in {JStr("scroll"), JStr("swipe")}
         /\ HasKey(sp[1], "direction")) =>
           CountPrefix(result.errors, sp[2], "Invalid direction")
             = IF IsDirection(Get(sp[1], "direction")) THEN 0 ELSE 1

\* a returned result with a swipe step whose direction is null and that has
\* the error, and a scroll step whose direction is "left" and that has no
\* error
C15_Witness ==
    /\ Finished
    /\ \E sp \in StepsWithPaths :
          /\ ActionStep(sp[1]) /\ Get(sp[1], "action") = JStr("swipe")
          /\ GetOr(sp[1], "direction", Absent) = JNull
          /\ Count(result.errors, sp[2],
                   "Invalid direction: None. Must be one of: ['up', 'down', 'left', 'right']")
               = 1
    /\ \E sp \in StepsWithPaths :
          /\ ActionStep(sp[1]) /\ Get(sp[1], "action") = JStr("scroll")
          /\ GetOr(sp[1], "direction", Absent) = JStr("left")
          /\ MessagesAt(result.errors, sp[2]) = {}


\* ------------------------------------------------------------------------
\* C16
\* ------------------------------------------------------------------------
\* a file step whose `file` is a non-empty string
NamedFileStep(step) == FileRefStep(step) /\ StripNonEmpty(Get(step, "file")[2])

\* the path the validator of the call resolves the step's `file` to
ResolvedReference(step) ==
    IF ImplOf(self) = "modular"
    THEN resolve_file_reference(fs, Resolve(call.file_path), Get(step, "file")[2])
    ELSE Legacy_resolve_file_reference(fs, Resolve(call.file_path), Get(step, "file")[2])

\* none of the candidate files of the reference exists
Dangling(step) == ~PathExists(fs, ResolvedReference(step))

\* a file step with nothing but a `file` and a well-formed `case` or `cases`
WellFormedFileStep(step) ==
    /\ NamedFileStep(step)
    /\ KeySet(step) \subseteq {"file", "case", "cases"}
    /\ ~(HasKey(step, "case") /\ HasKey(step, "cases"))
    /\ HasKey(step, "case") =>
          IsStr(Get(step, "case")) /\ StripNonEmpty(Get(step, "case")[2])
    /\ HasKey(step, "cases") =>
          /\ IsList(Get(step, "cases")) /\ PyLen(Get(step, "cases")) > 0
          /\ AllNonEmptyStrings(Items(Get(step, "cases")))

\* some message says "Referenced test file not found"
SaysNotFound(msgs) ==
    \E k \in 1..Len(msgs) : StrContains(msgs[k].message, "Referenced test file not found")

\* a flow test whose only defect is dangling file references: the usual
\* keys, and steps that are well-formed file steps without an existing file
OnlyDangling(d) ==
    /\ IsFlowTest(d)
    /\ KeySet(d) = {"type", "metadata", "steps"}
    /\ FlowSteps(d) # <<>>
    /\ \A j \in 1..Len(FlowSteps(d)) :
          WellFormedFileStep(FlowSteps(d)[j]) /\ Dangling(FlowSteps(d)[j])

\* C16: when validate_file validates a flow test, a file step records the
\* warning "Referenced test file not found" exactly when none of the
\* candidate files of its reference exists; the text is never recorded as an
\* error, a well-formed file step records no error, and a flow test whose
\* only defect is dangling references is valid.
C16_DanglingReferenceWarns ==
    (Finished /\ call.op = "validate_file" /\ IsFlowTest(data)) =>
      /\ \A j \in 1..Len(FlowSteps(data)) :
           LET step == FlowSteps(data)[j]
           IN NamedFileStep(step) =>
                /\ CountPrefix(result.warnings, FlowStepPath(j),
                               "Referenced test file not found: ")
                     = IF Dangling(step) THEN 1 ELSE 0
                /\ WellFormedFileStep(step) =>
                     MessagesAt(result.errors, FlowStepPath(j)) = {}
      /\ ~SaysNotFound(result.errors)
      /\ OnlyDangling(data) => result.errors = <<>> /\ is_valid(result)

\* a returned result for a flow test whose only defect is a dangling
\* reference: the warning, no error, valid
C16_Witness ==
    /\ Finished /\ call.op = "validate_file"
    /\ OnlyDangling(data)
    /\ SaysNotFound(result.warnings)
    /\ is_valid(result)


\* ------------------------------------------------------------------------
\* C17
\* ------------------------------------------------------------------------
\* what the client of the call in progress has got
Outcome ==
    IF pc = "raised" THEN <<"raised">> ELSE <<"returned", result.errors, result.warnings>>

\* C17: validate_data(data, name) returns what a validator that has validated
\* no file returns for the same data and name: nothing in the result comes
\* from the file system or from the path of a file validated earlier.
C17_ValidateDataDependsOnDataOnly ==
    (call.op = "validate_data" /\ pc \in {"returned", "raised"}) =>
        Outcome = validate_data(ImplOf(self), NoPath, data, call.file_path)


\* ------------------------------------------------------------------------
\* C18
\* ------------------------------------------------------------------------
\* the files of the two calls lie in different directories (or only one of
\* the threads has called)
DifferentDirectories ==
    \/ call.op = "none"
    \/ other.pc = "none"
    \/ PathParent(Resolve(call.file_path)) # PathParent(Resolve(other.file_path))

\* C18: when validate_file calls of two threads for files in different
\* directories interleave on one TestValidator, each call returns what it
\* returns when it runs alone, its references resolved relative to the
\* directory of its own file.
C18_InterleavedAsSequential ==
    DifferentDirectories =>
      /\ (call.op = "validate_file" /\ pc \in {"returned", "raised"}) =>
            Outcome = validate_file(ImplOf(self), Resolve(call.file_path), call.file_path)
      /\ other.pc = "returned" =>
            validate_file(ImplOf(other.self), other.tfp, other.file_path)
              = validate_file(ImplOf(other.self), Resolve(other.file_path),
                              other.file_path)


\* ------------------------------------------------------------------------
\* C19
\* ------------------------------------------------------------------------
\* the steps of the `setup` or `teardown` section of a flow test payload
SectionSteps(d, section) ==
    IF IsFlowTest(d) /\ IsList(GetOr(d, section, JNull))
    THEN Items(Get(d, section)) ELSE <<>>

\* the message path of step j of a section (counted from 1)
SectionStepPath(section, j) == MsgPath \o "." \o section \o "[" \o ToString(j - 1) \o "]"

\* a step with neither `action` nor `assert`, or a tap without `id`
InvalidStep(step) ==
    /\ PlainStep(step)
    /\ \/ ~HasKey(step, "action") /\ ~HasKey(step, "assert")
       \/ GetOr(step, "action", JNull) = JStr("tap") /\ KeySet(step) = {"action"}

\* C19: a flow test whose setup or teardown holds an invalid step (a step
\* with neither `action` nor `assert`, an action without a required
\* parameter) is returned with an error for that step and is_valid false.
C19_SetupAndTeardownValidated ==
    Finished =>
      \A section \in {"setup", "teardown"} :
        \A j \in 1..Len(SectionSteps(data, section)) :
          InvalidStep(SectionSteps(data, section)[j]) =>
            /\ ~is_valid(result)
            /\ MessagesAt(result.errors, SectionStepPath(section, j)) # {}


\* ------------------------------------------------------------------------
\* C20
\* ------------------------------------------------------------------------
\* a step whose `file` is not a string, is empty or is only whitespace
BadFileStep(step) ==
    /\ IsDict(step) /\ HasKey(step, "file")
    /\ ~(IsStr(Get(step, "file")) /\ StripNonEmpty(Get(step, "file")[2]))

FileMustBeString == "'file' must be a non-empty string"

\* the step at position j of the flow has that one error and no other message
OnlyFileError(j) ==
    /\ Count(result.errors, FlowStepPath(j), FileMustBeString) = 1
    /\ Cardinality(MessagesAt(result.errors, FlowStepPath(j))) = 1
    /\ MessagesAt(result.warnings, FlowStepPath(j)) = {}

\* every step of the flow is a file step or a plain step
OnlyDictSteps(d) == \A j \in 1..Len(FlowSteps(d)) : IsDict(FlowSteps(d)[j])

\* the validation of the flow test has ended, with a result or an exception
FlowValidationEnded ==
    /\ call.op # "none" /\ gen.op = "none"
    /\ pc \in {"returned", "raised"}
    /\ "flow" \in ran

\* C20: in a flow test, a file step whose `file` is not a string, is empty or
\* is only whitespace records exactly one error, "'file' must be a non-empty
\* string", at the step's path and no other message for the step: `case` and
\* `cases` are not checked and the reference is not resolved.
C20_BadFileValueOneError ==
    (FlowValidationEnded /\ OnlyDictSteps(data)) =>
      \A j \in 1..Len(FlowSteps(data)) :
        BadFileStep(FlowSteps(data)[j]) => (pc = "returned" /\ OnlyFileError(j))

\* the same for the validations that return a result
C20_BadFileValueOneErrorOnReturn ==
    (FlowValidationEnded /\ pc = "returned") =>
      \A j \in 1..Len(FlowSteps(data)) :
        BadFileStep(FlowSteps(data)[j]) => OnlyFileError(j)


\* ------------------------------------------------------------------------
\* C21
\* ------------------------------------------------------------------------
BothCaseAndCases == "File step cannot have both 'case' and 'cases'"
CaseMustBeString == "'case' must be a non-empty string"
CasesMustBeArray == "'cases' must be a non-empty array"
CasesMustBeStrings == "'cases' must be an array of non-empty strings"

\* a string with a character that is not white space
NonBlankString(v) ==
    IsStr(v) /\ \E i \in 1..Len(v[2]) : SubSeq(v[2], i, i) \notin {" ", "\t", "\n", "\r"}

\* a non-empty list of such strings
NonBlankStrings(v) ==
    /\ IsList(v) /\ Len(v[2]) > 0
    /\ \A i \in 1..Len(v[2]) : NonBlankString(v[2][i])

\* how many errors about `case` and `cases` the step at position j has
CaseKeyErrors(j) ==
    Cardinality({k \in MessagesAt(result.errors, FlowStepPath(j)) :
        result.errors[k].message \in {BothCaseAndCases, CaseMustBeString,
                                      CasesMustBeArray, CasesMustBeStrings}})

\* C21: a file step with a valid `file` records an error when both `case`
\* and `cases` are present, an error when `case` is present and is not a
\* non-empty string, and an error when `cases` is present and is not a
\* non-empty list of non-empty strings; a step with at most one of the two
\* keys, well-shaped, records none of these errors.
C21_CaseAndCases ==
    Finished =>
      \A j \in 1..Len(FlowSteps(data)) :
        LET step == FlowSteps(data)[j]
            both == HasKey(step, "case") /\ HasKey(step, "cases")
            badCase == HasKey(step, "case") /\ ~NonBlankString(Get(step, "case"))
            badCases == HasKey(step, "cases") /\ ~NonBlankStrings(Get(step, "cases"))
            n(message) == Count(result.errors, FlowStepPath(j), message)
        IN NamedFileStep(step) =>
             /\ n(BothCaseAndCases) = (IF both THEN 1 ELSE 0)
             /\ n(CaseMustBeString) = (IF badCase THEN 1 ELSE 0)
             /\ n(CasesMustBeArray) + n(CasesMustBeStrings) = (IF badCases THEN 1 ELSE 0)
             /\ (~both /\ ~badCase /\ ~badCases) => CaseKeyErrors(j) = 0

\* a returned result for a flow with a step that has both keys, each badly
\* shaped (three errors), and a step with well-shaped `cases` alone (none)
C21_Witness ==
    /\ Finished
    /\ \E j, k \in 1..Len(FlowSteps(data)) :
         /\ NamedFileStep(FlowSteps(data)[j]) /\ NamedFileStep(FlowSteps(data)[k])
         /\ GetOr(FlowSteps(data)[j], "case", JNull) = JStr(" ")
         /\ GetOr(FlowSteps(data)[j], "cases", JNull) = JList(<<JStr("input"), JStr("")>>)
         /\ CaseKeyErrors(j) = 3
         /\ KeySet(FlowSteps(data)[k]) = {"file", "cases"}
         /\ Len(Items(Get(FlowSteps(data)[k], "cases"))) = 2
         /\ CaseKeyErrors(k) = 0


\* ------------------------------------------------------------------------
\* C22
\* ------------------------------------------------------------------------
\* an integer greater than 0
PositiveInteger(v) == Kind(v) = "int" /\ v[2] > 0

\* how the error for a `timeout` or an `ms` value begins
DurationError(key) ==
    IF key = "timeout" THEN "Timeout must be a positive integer (ms), got: "
    ELSE "ms must be a positive integer, got: "

\* the steps with a supported action that are validated as actions
SupportedActionSteps ==
    {sp \in StepsWithPaths :
        /\ ActionStep(sp[1])
        /\ IsStr(Get(sp[1], "action"))
        /\ Get(sp[1], "action")[2] \in DOMAIN SUPPORTED_ACTIONS}

\* the values of `timeout` and `ms` that `accepted` holds for record no error
\* for the key, all others exactly one
DurationChecked(accepted(_)) ==
    Finished =>
      \A sp \in SupportedActionSteps :
        \A key \in {"timeout", "ms"} :
          HasKey(sp[1], key) =>
            CountPrefix(result.errors, sp[2], DurationError(key))
              = (IF accepted(Get(sp[1], key)) THEN 0 ELSE 1)

\* C22: for every supported action step, a `timeout` or `ms` key whose value
\* is not a positive integer (zero, a negative number, a string, a float, a
\* boolean) records an error for that key, and an integer greater than 0
\* records none.
C22_PositiveIntegerOnly == DurationChecked(PositiveInteger)

\* the same with the boolean true taken for the integer 1
C22_PositiveIntegerOrTrue ==
    DurationChecked(LAMBDA v : PositiveInteger(v) \/ v = JBool(TRUE))


\* ------------------------------------------------------------------------
\* C23
\* ------------------------------------------------------------------------
ArgsMustBeMap == "'args' must be an object/dictionary"

\* the message path of the `args` of case i, and of one of its keys
ArgsPath(i) == CasePath(i) \o ".args"
ArgPath(i, key) == ArgsPath(i) \o "." \o key

\* a string, an integer, a float or a boolean
PrimitiveValue(v) == Kind(v) \in {"str", "int", "float", "bool"}

\* the errors at `path` that say "primitive type"
PrimitiveErrors(path) ==
    {k \in 1..Len(result.errors) :
        /\ result.errors[k].path = path
        /\ StrContains(result.errors[k].message, "primitive type")}

C23_CaseArgsLegacy ==
    (Finished /\ ImplOf(self) # "modular") =>
      \A i \in 1..Len(ScreenCases(data)) :
        (IsDict(ScreenCases(data)[i]) /\ HasKey(ScreenCases(data)[i], "args")
            /\ ~IsDict(Get(ScreenCases(data)[i], "args"))) =>
          Count(result.errors, ArgsPath(i), ArgsMustBeMap) = 1


\* ------------------------------------------------------------------------
\* C24
\* ------------------------------------------------------------------------
\* a list whose items are all strings
ListOfStrings(v) == IsList(v) /\ \A i \in 1..Len(v[2]) : Kind(v[2][i]) = "str"

\* the description document is as required: a non-blank `case_name`, string
\* `summary` and `notes`, and lists of strings, where present
WellFormedDescription(d) ==
    /\ HasKey(d, "case_name") /\ NonBlankString(Get(d, "case_name"))
    /\ \A key \in {"summary", "notes"} : HasKey(d, key) => Kind(Get(d, key)) = "str"
    /\ \A key \in {"preconditions", "test_procedure", "expected_results"} :
          HasKey(d, key) => ListOfStrings(Get(d, key))

\* the description validator has validated a map and the call has returned
DescriptionValidated == Finished /\ "description" \in ran /\ IsDict(data)

\* the keys of the document that a description does not have
UnknownDescriptionKeys(d) ==
    KeySet(d) \ {"case_name", "summary", "preconditions", "test_procedure",
                 "expected_results", "notes"}

\* C24: a description document is valid exactly when `case_name` is present
\* and is a string that is not empty after trimming, `summary` and `notes`
\* are strings when present, and `preconditions`, `test_procedure` and
\* `expected_results` are lists of strings when present; a missing
\* `case_name` records exactly one error about case_name; unknown keys record
\* warnings only.
C24_DescriptionValid ==
    DescriptionValidated =>
      /\ is_valid(result) <=> WellFormedDescription(data)
      /\ ~HasKey(data, "case_name") =>
            Cardinality({k \in 1..Len(result.errors) :
                           StrContains(result.errors[k].message, "case_name")}) = 1
      /\ \A key \in UnknownDescriptionKeys(data) :
            /\ Count(result.warnings, MsgPath, "Unknown description key: " \o key) = 1
            /\ \A k \in 1..Len(result.errors) :
                  ~StrContains(result.errors[k].message, key)
      /\ Len(result.warnings) = Cardinality(UnknownDescriptionKeys(data))

\* a returned result for a valid description with an unknown key and an
\* empty list: one warning, no error
C24_Witness ==
    /\ DescriptionValidated
    /\ is_valid(result) /\ HasKey(data, "bogus")
    /\ GetOr(data, "preconditions", JNull) = JList(<<>>)
    /\ Len(result.warnings) = 1


\* ------------------------------------------------------------------------
\* C25
\* ------------------------------------------------------------------------
\* the steps of the `setup` or `teardown` list of a screen test payload
ScreenSectionSteps(d, section) ==
    IF IsDict(d) /\ GetOr(d, "type", JNull) = JStr("screen")
                 /\ IsList(GetOr(d, section, JNull))
    THEN Items(Get(d, section)) ELSE <<>>

\* the messages recorded at `path` or below it, in order, with the path
\* taken relative to `path`
RelativeTo(msgs, path) ==
    LET at == SelectSeq(msgs,
                LAMBDA m : \/ m.path = path
                           \/ /\ Len(m.path) > Len(path)
                              /\ SubSeq(m.path, 1, Len(path) + 1)
                                    \in {path \o ".", path \o "["})
    IN [k \in 1..Len(at) |->
          <<SubSeq(at[k].path, Len(path) + 1, Len(at[k].path)), at[k].message,
            at[k].level>>]

\* C25: a step of the `setup` or `teardown` list of a screen test records the
\* errors and warnings that the same step records in a case of the test,
\* apart from the path prefix <file>.setup[i] or <file>.teardown[i]; a step
\* with a `file` or `block` key there records the "only allowed in flow
\* tests" error.
C25_SectionsLikeCaseSteps ==
    Finished =>
      \A section \in {"setup", "teardown"} :
        \A j \in 1..Len(ScreenSectionSteps(data, section)) :
          LET step == ScreenSectionSteps(data, section)[j]
              at == SectionStepPath(section, j)
          IN /\ \A sp \in StepsWithPaths :
                  sp[1] = step =>
                    /\ RelativeTo(result.errors, at) = RelativeTo(result.errors, sp[2])
                    /\ RelativeTo(result.warnings, at) = RelativeTo(result.warnings, sp[2])
             /\ GatedStep(step) =>
                  /\ Count(result.errors, at, OnlyInFlows(step)) = 1
                  /\ Cardinality(MessagesAt(result.errors, at)) = 1
                  /\ MessagesAt(result.warnings, at) = {}

\* a returned result for a screen test whose teardown has a tap without `id`
\* that a case has too, with its error at both places, and whose setup has a
\* file step with its error
C25_Witness ==
    /\ Finished
    /\ \E j \in 1..Len(ScreenSectionSteps(data, "teardown")) :
         /\ ScreenSectionSteps(data, "teardown")[j] = TapWithoutId
         /\ \E sp \in StepsWithPaths :
              /\ sp[1] = TapWithoutId
              /\ RelativeTo(result.errors, sp[2])
                   = << <<"", "Missing required parameter 'id' for action 'tap'", "error">> >>
              /\ RelativeTo(result.errors, SectionStepPath("teardown", j))
                   = RelativeTo(result.errors, sp[2])
    /\ \E j \in 1..Len(ScreenSectionSteps(data, "setup")) :
         /\ GatedStep(ScreenSectionSteps(data, "setup")[j])
         /\ Cardinality(MessagesAt(result.errors, SectionStepPath("setup", j))) = 1


\* ------------------------------------------------------------------------
\* C26
\* ------------------------------------------------------------------------
\* the directory of the file under validation and its tests root: the parent
\* of a `flows` or `screens` directory the file lies in, or lies one level
\* below
BaseDir == PathParent(Resolve(call.file_path))

TestsRoot ==
    IF PathName(BaseDir) \in {"flows", "screens"} THEN PathParent(BaseDir)
    ELSE IF PathName(PathParent(BaseDir)) \in {"flows", "screens"}
    THEN PathParent(PathParent(BaseDir))
    ELSE BaseDir

\* the candidates of a reference: in screens/, in flows/, in the directory
\* of the file
ScreensCandidates(ref) ==
    << TestsRoot \o "/screens/" \o ref \o "/" \o ref \o ".test.json",
       TestsRoot \o "/screens/" \o ref \o ".test.json" >>

FlowsCandidates(ref) ==
    << TestsRoot \o "/flows/" \o ref \o "/" \o ref \o ".test.json",
       TestsRoot \o "/flows/" \o ref \o ".test.json" >>

SameDirectoryCandidates(ref) ==
    << BaseDir \o "/" \o ref \o ".test.json",
       BaseDir \o "/" \o ref \o ".json",
       BaseDir \o "/" \o ref >>

\* the first of the candidates that exists; the fallback if none does
FirstOf(candidates, fallback) ==
    IF \A i \in 1..Len(candidates) : ~PathExists(fs, candidates[i]) THEN fallback
    ELSE candidates[CHOOSE i \in 1..Len(candidates) :
                       /\ PathExists(fs, candidates[i])
                       /\ \A j \in 1..(i - 1) : ~PathExists(fs, candidates[j])]

\* the text of the warning for a reference that resolves to `path`
NotFoundWarning(ref, path) ==
    "Referenced test file not found: " \o ref \o " (looked for " \o path \o ")"

\* the file steps of a flow that validate_file has validated, by position
ResolvedSteps ==
    IF Finished /\ call.op = "validate_file"
    THEN {j \in 1..Len(FlowSteps(data)) : NamedFileStep(FlowSteps(data)[j])}
    ELSE {}

\* the validator of the validation package resolves every reference to the
\* first existing candidate of order(ref), and warns with the screens
\* candidate when none exists
ResolvesInOrder(order(_)) ==
    ImplOf(self) = "modular" =>
      \A j \in ResolvedSteps :
        LET ref == Get(FlowSteps(data)[j], "file")[2]
            expected == FirstOf(order(ref), ScreensCandidates(ref)[1])
        IN /\ ResolvedReference(FlowSteps(data)[j]) = expected
           /\ Count(result.warnings, FlowStepPath(j), NotFoundWarning(ref, expected))
                = (IF PathExists(fs, expected) THEN 0 ELSE 1)
           /\ PathExists(fs, expected) => ~SaysNotFound(result.warnings)

HasSeparator(v) ==
    \E c \in {"/", "\\"} :
        CASE Kind(v) = "str" -> \E i \in 1..Len(v[2]) : SubSeq(v[2], i, i) = c
          [] Kind(v) = "list" -> \E i \in 1..Len(v[2]) : v[2][i] = <<"str", c>>
          [] Kind(v) = "dict" -> \E i \in 1..Len(v[2]) : v[2][i][1] = c
          [] OTHER -> FALSE

\* the steps of setup, steps and teardown of the flow, taken together
AllFlowSteps ==
    SectionSteps(data, "setup") \o FlowSteps(data) \o SectionSteps(data, "teardown")

\* those of them whose `file` has a separator
SeparatorSteps ==
    SelectSeq(AllFlowSteps,
              LAMBDA step : IsDict(step) /\ HasKey(step, "file")
                            /\ HasSeparator(Get(step, "file")))

\* the message says that a file reference has a path separator
SaysSeparator(m) == StrContains(m.message, "contains path separator")

\* a message for a step of `steps`
AtSomeStep(m) ==
    /\ Len(m.path) > Len(MsgPath) + 7
    /\ SubSeq(m.path, 1, Len(MsgPath) + 7) = MsgPath \o ".steps["

\* the flow validator of the validation package is past its pre-scan
PreScanned ==
    /\ call.op # "none" /\ ImplOf(self) = "modular" /\ IsFlowTest(data)
    /\ pc \in {"flow_steps", "returned"} /\ "flow" \in ran

\* C27: before any step of a flow test is validated, the pre-scan records one
\* warning, and never an error, for each step of setup, steps and teardown
\* taken together whose `file` contains `/` or `\`; a flow test whose file
\* references all use a path separator and are otherwise well-formed stays
\* valid.
C27_PreScanWarns ==
    PreScanned =>
      /\ SelectSeq(result.warnings, SaysSeparator)
           = [k \in 1..Len(SeparatorSteps) |->
                ValidationMessage(MsgPath \o ".steps",
                    "File reference '" \o PyStr(Get(SeparatorSteps[k], "file"))
                      \o "' contains path separator. Use just the filename (e.g., 'login' instead of 'screens/login'). The loader automatically looks in screens/ subdirectory.",
                    "warning")]
      /\ \A k \in 1..Len(result.errors) : ~SaysSeparator(result.errors[k])
      /\ pc = "flow_steps" =>
            /\ Len(result.warnings) = Len(SeparatorSteps)
            /\ result.errors = <<>>
      /\ \A k1, k2 \in 1..Len(result.warnings) :
            (SaysSeparator(result.warnings[k1]) /\ ~SaysSeparator(result.warnings[k2]))
              => k1 < k2
      /\ (pc = "returned" /\ FlowSteps(data) # <<>>
            /\ \A j \in 1..Len(FlowSteps(data)) :
                  /\ WellFormedFileStep(FlowSteps(data)[j])
                  /\ HasSeparator(Get(FlowSteps(data)[j], "file")))
           => is_valid(result)

\* a returned result for a flow with such references in setup, steps and
\* teardown: six warnings of the pre-scan for strings, two for a list and
\* a map, ahead of the other warnings
C27_Witness ==
    /\ PreScanned /\ pc = "returned"
    /\ Len(SectionSteps(data, "setup")) = 2 /\ Len(SectionSteps(data, "teardown")) = 2
    /\ Len(SeparatorSteps) = 8
    /\ Len(SelectSeq(result.warnings, SaysSeparator)) = 8
    /\ Len(result.warnings) > 8


\* ------------------------------------------------------------------------
\* C28
\* ------------------------------------------------------------------------
BlockMustBeString == "'block' must be a non-empty string"
BlockNeedsSteps == "Block step must have 'steps' array"
BlockStepsMustBeArray == "Block 'steps' must be a non-empty array"

\* the messages recorded strictly below `path`
MessagesBelow(msgs, path) == {k \in MessagesAt(msgs, path) : msgs[k].path # path}

\* the block step at position j records `message` as its only error, and
\* nothing is recorded for its inner steps
OnlyBlockError(j, message) ==
    /\ Count(result.errors, FlowStepPath(j), message) = 1
    /\ Cardinality(MessagesAt(result.errors, FlowStepPath(j))) = 1
    /\ MessagesBelow(result.warnings, FlowStepPath(j)) = {}

\* the `steps` of the block step is a list with an item
HasInnerSteps(step) ==
    HasKey(step, "steps") /\ IsList(Get(step, "steps")) /\ Len(Get(step, "steps")[2]) > 0

\* inner step k of block j has the messages that the same step has as a step
\* of the flow (a step with neither `file` nor `block` is validated alike
\* with is_flow true and false)
LikeFlowStep(j, k) ==
    \A j2 \in 1..Len(FlowSteps(data)) :
      FlowSteps(data)[j2] = InnerSteps(FlowSteps(data)[j])[k] =>
        /\ RelativeTo(result.errors, InnerStepPath(j, k))
             = RelativeTo(result.errors, FlowStepPath(j2))
        /\ RelativeTo(result.warnings, InnerStepPath(j, k))
             = RelativeTo(result.warnings, FlowStepPath(j2))

\* the checks of a block step up to its inner steps, and `inner(j, k)` for
\* each inner step
BlockStepChecked(inner(_, _)) ==
    Finished =>
      \A j \in 1..Len(FlowSteps(data)) :
        LET step == FlowSteps(data)[j]
        IN BlockStep(step) =>
             IF ~NonBlankString(Get(step, "block"))
             THEN /\ OnlyBlockError(j, BlockMustBeString)
                  /\ MessagesAt(result.warnings, FlowStepPath(j)) = {}
             ELSE IF ~HasKey(step, "steps") THEN OnlyBlockError(j, BlockNeedsSteps)
             ELSE IF ~HasInnerSteps(step) THEN OnlyBlockError(j, BlockStepsMustBeArray)
             ELSE /\ \A k \in 1..Len(InnerSteps(step)) : inner(j, k)
                  /\ \A message \in {BlockMustBeString, BlockNeedsSteps,
                                     BlockStepsMustBeArray} :
                        Count(result.errors, FlowStepPath(j), message) = 0

\* C28 as stated: ... otherwise every inner step is validated as a plain step
\* with is_flow false at <block path>.steps[i]: an inner step with a `file`
\* or a `block` key records what such a step records outside a flow.
C28_AsStated ==
    BlockStepChecked(LAMBDA j, k :
        LET step == InnerSteps(FlowSteps(data)[j])[k]
        IN IF GatedStep(step)
           THEN Count(result.errors, InnerStepPath(j, k), OnlyInFlows(step)) = 1
           ELSE LikeFlowStep(j, k))

\* C28, amended: a block step whose `block` is not a non-empty string records
\* exactly one error and nothing else; otherwise a missing `steps` records
\* "Block step must have 'steps' array" and a `steps` that is not a non-empty
\* list records "Block 'steps' must be a non-empty array", in both cases
\* with no message for an inner step; otherwise every inner step without a
\* `file` or `block` key is validated as a plain step at
\* <block path>.steps[i], and an inner step with such a key records its "not
\* allowed inside block steps" error only.
C28_BlockStep ==
    BlockStepChecked(LAMBDA j, k :
        LET step == InnerSteps(FlowSteps(data)[j])[k]
        IN IF GatedStep(step)
           THEN /\ Count(result.errors, InnerStepPath(j, k), NotInsideBlocks(step)) = 1
                /\ Cardinality(MessagesAt(result.errors, InnerStepPath(j, k))) = 1
                /\ MessagesAt(result.warnings, InnerStepPath(j, k)) = {}
           ELSE LikeFlowStep(j, k))

\* a returned result for a flow with a block whose name is blank and whose
\* inner tap has no `id` (one error, for the name), a block without `steps`,
\* and a block whose inner tap without `id` has its error
C28_Witness ==
    /\ Finished
    /\ \E j1, j2, j3 \in 1..Len(FlowSteps(data)) :
         /\ BlockStep(FlowSteps(data)[j1]) /\ Get(FlowSteps(data)[j1], "block") = JStr("")
         /\ InnerSteps(FlowSteps(data)[j1]) = <<TapWithoutId>>
         /\ OnlyBlockError(j1, BlockMustBeString)
         /\ BlockStep(FlowSteps(data)[j2]) /\ KeySet(FlowSteps(data)[j2]) = {"block", "description", "extra"}
         /\ OnlyBlockError(j2, BlockNeedsSteps)
         /\ BlockStep(FlowSteps(data)[j3]) /\ HasInnerSteps(FlowSteps(data)[j3])
         /\ InnerSteps(FlowSteps(data)[j3])[2] = TapWithoutId
         /\ RelativeTo(result.errors, InnerStepPath(j3, 2))
              = << <<"", "Missing required parameter 'id' for action 'tap'", "error">> >>


\* ------------------------------------------------------------------------
\* C29
\* ------------------------------------------------------------------------
\* list `a` is the beginning of list `b`
IsPrefixOf(a, b) == Len(a) <= Len(b) /\ SubSeq(b, 1, Len(a)) = a

\* the step is the first of a validate_file or validate_data call
CallStarts ==
    \/ pc' = "read"
    \/ pc = "idle" /\ pc' = "dispatch" /\ call'.op = "validate_data"

\* the step hands the result to the caller, whose variable it becomes
CallHandsOver == pc' = "idle"

\* every message of the list is about `path` or a place below it
AllAt(msgs, path) == MessagesAt(msgs, path) = 1..Len(msgs)

\* C29: every validate_file or validate_data call starts from a
\* ValidationResult with no errors and no warnings, also when the validator
\* has just validated another file; during the call each step leaves the
\* errors and the warnings it found at the beginning of the two lists, in
\* their order, so that the lists only grow at the end; and the messages of
\* the returned result are all about the file or the name of this call.
C29_FreshResultAppendOnly ==
    [][/\ CallStarts => result'.errors = <<>> /\ result'.warnings = <<>>
       /\ ~CallStarts /\ ~CallHandsOver =>
             /\ IsPrefixOf(result.errors, result'.errors)
             /\ IsPrefixOf(result.warnings, result'.warnings)
       /\ pc' = "returned" =>
             /\ AllAt(result'.errors, call'.file_path)
             /\ AllAt(result'.warnings, call'.file_path)]_vars

\* generate_html_directory is at its second file or later, the file before
\* was skipped for its errors, and the call on this file, which started
\* empty, has returned a result without errors and with warnings of its own
C29_Witness ==
    /\ gen.op = "html_dir" /\ pc = "returned"
    /\ \E i \in 1..Len(gen.verdicts) : gen.verdicts[i][2] = "skipped"
    /\ result.errors = <<>> /\ Len(result.warnings) > 0

\* ------------------------------------------------------------------------
\* C30
\* ------------------------------------------------------------------------
RECURSIVE MatchedUpTo(_, _, _, _, _)
\* the items i1..i2 of list `a` are looked for in list `b` from position j
\* on, each at the first place after the one before: the position after the
\* place of the last one, or Len(b) + 2 when an item is not found
MatchedUpTo(a, b, i1, i2, j) ==
    IF i1 = i2
    THEN LET places == {k \in j..Len(b) : b[k] = a[i1]}
         IN IF places = {} THEN Len(b) + 2
            ELSE (CHOOSE k \in places : \A k2 \in places : k <= k2) + 1
    ELSE LET mid == (i1 + i2) \div 2
             next == MatchedUpTo(a, b, i1, mid, j)
         IN IF next > Len(b) + 1 THEN next
            ELSE MatchedUpTo(a, b, mid + 1, i2, next)

\* list `a` is a subsequence of list `b`
IsSubsequence(a, b) == a = <<>> \/ MatchedUpTo(a, b, 1, Len(a), 1) <= Len(b) + 1

\* a validate_data call on a validator that has validated no file has ended
FreshValidateDataEnded ==
    /\ call.op = "validate_data" /\ pc \in {"returned", "raised"}
    /\ test_file_path[self] = NoPath

\* what a fresh validator of the other class gives for the document of the call
OtherOutcome ==
    validate_data(IF self = "modular" THEN "legacy" ELSE "modular", NoPath, data,
                  call.file_path)

\* C30 as stated: for every document passed to validate_data on a fresh
\* validator for which the legacy validator returns a result, the modular
\* validator returns one, and the errors of the legacy validator are a
\* subsequence of the errors of the modular validator.
C30_LegacyErrorsSubsequence ==
    FreshValidateDataEnded =>
        LET o == OtherOutcome
            legacy == IF self = "legacy" THEN Outcome ELSE o
            modular == IF self = "modular" THEN Outcome ELSE o
        IN legacy[1] = "returned" =>
              /\ modular[1] = "returned"
              /\ IsSubsequence(legacy[2], modular[2])

\* C30, for the documents both validators return a result for: the errors
\* of the legacy validator are a subsequence of the errors of the modular
\* validator, and a document without errors for the modular validator has
\* none for the legacy validator; and the modular validator raises wherever
\* the legacy validator raises.
C30_SubsequenceWhenBothReturn ==
    FreshValidateDataEnded =>
        LET o == OtherOutcome
            legacy == IF self = "legacy" THEN Outcome ELSE o
            modular == IF self = "modular" THEN Outcome ELSE o
        IN /\ legacy[1] = "raised" => modular[1] = "raised"
           /\ (legacy[1] = "returned" /\ modular[1] = "returned") =>
                 /\ IsSubsequence(legacy[2], modular[2])
                 /\ modular[2] = <<>> => legacy[2] = <<>>

\* the legacy validator has returned one error for a flow whose step has the
\* `file` 5, a document on which the modular validator raises
C30_LegacyReturnsModularRaises ==
    /\ FreshValidateDataEnded /\ self = "legacy" /\ pc = "returned"
    /\ Len(result.errors) = 1
    /\ IsFlowTest(data) /\ FlowSteps(data) = <<FileRef(JInt(5))>>
    /\ OtherOutcome = <<"raised">>
====
